---- MODULE Spec2Model ----
(***************************************************************************)
(* Request-governance stack of the soccer dashboard: RequestDeduplicator,  *)
(* TokenBucketRateLimiter, CacheManager, AdvancedRateLimiter,              *)
(* EnhancedRateLimiter and SportradarAPI.request, each modelled from its   *)
(* source.  Time is the value of Date.now() in milliseconds.  Every        *)
(* component has a specification of its own (SpecDedup, SpecBucket, ...);  *)
(* the variables of the components a specification does not run stay at    *)
(* their initial values.                                                   *)
(***************************************************************************)
EXTENDS Integers, Sequences, FiniteSets, TLC

VARIABLES
    now,              \* Date.now()
    \* ---- RequestDeduplicator
    pendingRequests,  \* Map<string, PendingRequest>: key -> [inv, timestamp]
    invs,             \* requestFn invocations: <<[key, state, started]>>
    callers,          \* deduplicate calls: <<[key, inv, inflight, at]>>
    swept,            \* keys of which cleanupExpiredRequests removed a record
    \* ---- TokenBucketRateLimiter
    bucketCfg,        \* TokenBucketConfig the bucket was constructed with
    tokens,           \* this.tokens
    lastRefill,       \* this.lastRefill
    waiter,           \* a caller of waitForToken: [pc, wakeAt, disturbed, wait]
    bucketLast,       \* the last bucket call and what it returned
    \* ---- CacheManager
    cache,            \* Map<string, CacheEntry> in insertion order: <<[key, data, ...]>>
    storage,          \* localStorage['sportradar_cache']: the persisted entries
    cacheOps,         \* number of cache calls so far (bounds the run)
    cacheLast,        \* the last cache call and what it returned
    written,          \* per key, the last set(k, v, ttl) whose entry nothing but get/has touched
    \* ---- AdvancedRateLimiter
    advQueue,         \* this.requestQueue: <<[retryCount, execs]>>
    isProcessing,     \* this.isProcessing
    circuitBreakerFailures,
    lastCircuitBreakerTrip,
    advLoop,          \* the drain loop of processQueue: [pc, cur, wake]
    advTimers,        \* pending retry timers of handleRequestError: <<[req, fireAt]>>
    advBreaker,       \* history: [consec, opened, openedAt, last] of the circuit breaker
    advActive,        \* history: the processQueue calls that are between their guard
                      \* and their finally block
    \* ---- EnhancedRateLimiter
    limiterKind,      \* the limiter the client was built with: "advanced" or "enhanced"
    requests,         \* this.requests: times of the recorded requests
    enhRetryCount,    \* this.retryCount
    headerState,      \* [remainingRequests, resetTime, lastHeaderUpdate]
    requestQueue,     \* this.requestQueue: <<[id, priority]>>
    enhIsProcessing,  \* this.isProcessing
    circuitBreakerOpen,
    circuitBreakerOpenTime,
    consecutiveFailures,
    enhLoop,          \* processQueue/processSingleRequest: [pc, cur, attempt, waitCount, wake]
    enhKicks,         \* pending setTimeout(() => this.processQueue(), 0)
    enhBreaker,       \* history: [consec, opened, openedAt, last] of the circuit breaker
    scheduled,        \* history: the number of requests scheduleRequest has queued
    lastDispatch,     \* history: when request.execute() was last called (NoNumber: never)
    enhActive,        \* history: the processQueue calls that are between their guard
                      \* and their finally block
    \* ---- SportradarAPI
    clientLast,       \* history: the deduplication key of the request() call that was
                      \* the last step, or Null
    \* ---- retry delays of one queue item
    backoff,          \* [limiter, retryCount, count, prev, plain, returned, cap]
    \* ---- a failing call: the response interceptor and the limiter's decision
    failure,          \* [limiter, transport, apiError, execs, decision]
    \* ---- APIMonitor
    metrics,          \* this.metrics: the counters, lastError and requestHistory
    savedMetrics      \* localStorage['sportradar_api_metrics']: << >> or <<the metrics>>

dedupVars == <<pendingRequests, invs, callers, swept>>
bucketVars == <<bucketCfg, tokens, lastRefill>>
waiterVars == <<waiter, bucketLast>>
clockVars == <<now>>
\* the state of the specifications that exercise one function on its own
backoffVars == <<backoff>>
failureVars == <<failure>>
monitorVars == <<metrics, savedMetrics>>
standaloneVars == <<backoffVars, failureVars, monitorVars>>
\* what the actions of one component leave alone
cacheVars == <<cache, storage, cacheOps, cacheLast, written>>
advVars == <<advQueue, isProcessing, circuitBreakerFailures,
             lastCircuitBreakerTrip, advLoop, advTimers, advBreaker, advActive>>
enhVars == <<requests, enhRetryCount, headerState, requestQueue, enhIsProcessing,
             circuitBreakerOpen, circuitBreakerOpenTime, consecutiveFailures,
             enhLoop, enhKicks, enhBreaker, scheduled, lastDispatch, enhActive>>
otherThanDedup == <<bucketVars, waiterVars, cacheVars, advVars, limiterKind, enhVars, clientLast, standaloneVars>>
otherThanBucket == <<dedupVars, cacheVars, advVars, limiterKind, enhVars, clientLast, standaloneVars>>
otherThanCache == <<dedupVars, bucketVars, waiterVars, advVars, limiterKind, enhVars, clientLast, standaloneVars>>
otherThanAdv == <<dedupVars, bucketCfg, waiterVars, cacheVars, limiterKind, enhVars, clientLast, standaloneVars>>
otherThanEnh == <<dedupVars, bucketVars, waiterVars, cacheVars, limiterKind, advVars, clientLast, standaloneVars>>
otherThanClient == <<bucketCfg, waiterVars, cacheOps, cacheLast, written, limiterKind, enhVars,
                     standaloneVars>>
componentVars == <<now, dedupVars, bucketVars, waiterVars, cacheVars, advVars,
                   limiterKind, enhVars, clientLast>>
otherThanBackoff == <<componentVars, failureVars, monitorVars>>
otherThanFailure == <<componentVars, backoffVars, monitorVars>>
otherThanMonitor == <<componentVars, backoffVars, failureVars>>
vars == <<now, pendingRequests, invs, callers, swept,
          bucketCfg, tokens, lastRefill, waiter, bucketLast,
          cache, storage, cacheOps, cacheLast, written,
          advQueue, isProcessing, circuitBreakerFailures,
          lastCircuitBreakerTrip, advLoop, advTimers, advBreaker, advActive,
          limiterKind, requests, enhRetryCount, headerState, requestQueue,
          enhIsProcessing, circuitBreakerOpen, circuitBreakerOpenTime,
          consecutiveFailures, enhLoop, enhKicks, enhBreaker, scheduled,
          lastDispatch, enhActive, clientLast, backoff, failure, metrics, savedMetrics>>

----------------------------------------------------------------------------
(* Bounds of the model *)
MaxCalls == 3
MaxConsume == 2
MaxCacheOps == 3
MaxAdvLive == 2
MaxScheduled == 3
MaxRetryCount == 5
MaxRecords == 4
\* the drain specification: no request is made after this time (ms)
MaxArrivalTime == 90000
\* the drain specification: the requests given to scheduleRequest
MaxDrainScheduled == 2
\* config.maxSize of the CacheManager under test (1000 by default)
CacheMaxSize == 2

Keys == {"k1", "k2"}
\* null, and the value of a promise that has none yet
Null == "null"

----------------------------------------------------------------------------
(* RequestDeduplicator (src/unnamed/part_005) *)

requestTTL == 30000

\* Map.delete(key)
MapDelete_Kept(m, key) == m
MapDelete(m, key) == [k \in (DOMAIN m) \ {key} |-> m[k]]

\* Map.set(key, value)
MapSet_Lost(m, key, value) == m
MapSet(m, key, value) == [k \in (DOMAIN m) \cup {key} |-> IF k = key THEN value ELSE m[k]]

\* cleanupExpiredRequests(): delete every record with now - timestamp > requestTTL
cleanupExpiredRequests(p, t) ==
    [k \in {x \in DOMAIN p : ~(t - p[x].timestamp > requestTTL)} |-> p[k]]

\* a lookup that never finds the pending record
HasExisting_Never(p, key) == FALSE

\* const existing = this.pendingRequests.get(key); if (existing) ...
HasExisting(p, key) == key \in DOMAIN p

\* the invocations of requestFn for key that have not settled
Unsettled(key) == {i \in 1..Len(invs) : invs[i].key = key /\ invs[i].state = "pending"}

\* deduplicate(key, requestFn): sweep, then share the pending promise or
\* invoke requestFn and register its promise.  `started` is the state of the
\* new invocation right after requestFn() returned its promise.
deduplicate(key, kind, value) ==
    LET cleaned == cleanupExpiredRequests(pendingRequests, now)
        fresh   == Len(invs) + 1
        inv     == IF HasExisting(cleaned, key) THEN cleaned[key].inv ELSE fresh
    IN  /\ Len(callers) < MaxCalls
        /\ swept' = swept \cup ((DOMAIN pendingRequests) \ (DOMAIN cleaned))
        /\ callers' = Append(callers, [key |-> key, inv |-> inv,
                                       inflight |-> Unsettled(key), at |-> now,
                                       backToBack |-> clientLast = key])
        /\ IF HasExisting(cleaned, key)
             THEN /\ pendingRequests' = cleaned
                  /\ invs' = invs
             ELSE /\ invs' = Append(invs, [key |-> key, state |-> "pending", started |-> now,
                                           kind |-> kind, value |-> value, calls |-> 0])
                  /\ pendingRequests' = MapSet(cleaned, key, [inv |-> fresh, timestamp |-> now])

\* the promise of invocation i settles; its .finally() deletes the key's record
SettleInvocation(i, outcome, value, calls) ==
    /\ invs[i].state = "pending"
    /\ invs' = [invs EXCEPT ![i].state = outcome, ![i].value = value, ![i].calls = calls]
    /\ pendingRequests' = MapDelete(pendingRequests, invs[i].key)
    /\ UNCHANGED <<callers, swept>>

DedupCall ==
    \E key \in Keys : deduplicate(key, "call", Null) /\ UNCHANGED <<clockVars, otherThanDedup>>

DedupSettle ==
    \E i \in 1..Len(invs), outcome \in {"resolved", "rejected"} :
        SettleInvocation(i, outcome, Null, 0) /\ UNCHANGED <<clockVars, otherThanDedup>>

\* the instants at which the model looks at the clock
DedupInstants == {15000, 30000, 30001, 45001}

\* time passes
DedupTick ==
    /\ \E t \in DedupInstants : t > now /\ now' = t
    /\ UNCHANGED <<dedupVars, otherThanDedup>>

InitClock == now = 0

InitDedup ==
    /\ pendingRequests = << >>
    /\ invs = << >>
    /\ callers = << >>
    /\ swept = {}

NextDedup == DedupCall \/ DedupSettle \/ DedupTick

----------------------------------------------------------------------------
(* TokenBucketRateLimiter (src/src/services/tokenBucketRateLimiter.ts) *)

\* SPORTRADAR_RATE_LIMITS: refillRate is the fraction rateNum / rateDen per second
SPORTRADAR_RATE_LIMITS ==
    [trial      |-> [capacity |-> 1, rateNum |-> 1, rateDen |-> 90,
                     refillInterval |-> 1000, initialTokens |-> 1],
     production |-> [capacity |-> 10, rateNum |-> 5, rateDen |-> 1,
                     refillInterval |-> 200, initialTokens |-> 5]]

Min(a, b) == IF a < b THEN a ELSE b
Max(a, b) == IF a > b THEN a ELSE b

\* Math.floor((timePassed / 1000) * this.refillRate), timePassed >= 0
tokensToAdd(cfg, last, t) == ((t - last) * cfg.rateNum) \div (1000 * cfg.rateDen)

\* refillTokens without the cap at capacity
refillTokens_Uncapped(cfg, tk, last, t) ==
    IF tokensToAdd(cfg, last, t) > 0
      THEN <<tk + tokensToAdd(cfg, last, t), t>>
      ELSE <<tk, last>>

\* refillTokens(): <<tokens, lastRefill>> afterwards
refillTokens(cfg, tk, last, t) ==
    IF tokensToAdd(cfg, last, t) > 0
      THEN <<Min(cfg.capacity, tk + tokensToAdd(cfg, last, t)), t>>
      ELSE <<tk, last>>

\* canConsume(n): refills, then this.tokens >= n
canConsume(cfg, tk, last, t, n) == refillTokens(cfg, tk, last, t)[1] >= n

\* consume(n): <<returned, tokens, lastRefill>>
consume(cfg, tk, last, t, n) ==
    LET r == refillTokens(cfg, tk, last, t)
    IN  IF canConsume(cfg, tk, last, t, n) THEN <<TRUE, r[1] - n, r[2]>>
                                           ELSE <<FALSE, r[1], r[2]>>

\* getTimeUntilNextToken answering with the timer's period
getTimeUntilNextToken_Interval(cfg, tk) ==
    IF tk > 0 THEN 0 ELSE cfg.refillInterval

\* getTimeUntilNextToken(): Math.ceil(1 * (1000 / refillRate)) unless tokens > 0
getTimeUntilNextToken(cfg, tk) ==
    IF tk > 0 THEN 0
    ELSE ((1000 * cfg.rateDen) + cfg.rateNum - 1) \div cfg.rateNum

\* consume(n) by some caller other than the waiter
BucketConsume ==
    \E n \in 1..MaxConsume :
        LET c == consume(bucketCfg, tokens, lastRefill, now, n)
        IN  /\ tokens' = c[2]
            /\ lastRefill' = c[3]
            /\ bucketLast' = [op |-> "consume", n |-> n, ok |-> c[1],
                              afterWait |-> FALSE, disturbed |-> FALSE]
            /\ waiter' = [waiter EXCEPT !.disturbed = @ \/ c[1]]
            /\ UNCHANGED <<bucketCfg, clockVars, otherThanBucket>>

\* canConsume(n) and getAvailableTokens(): both only refill
BucketQuery ==
    \E n \in 1..MaxConsume :
        LET r == refillTokens(bucketCfg, tokens, lastRefill, now)
        IN  /\ tokens' = r[1]
            /\ lastRefill' = r[2]
            /\ bucketLast' = [op |-> "canConsume", n |-> n,
                              ok |-> canConsume(bucketCfg, tokens, lastRefill, now, n),
                              afterWait |-> FALSE, disturbed |-> FALSE]
            /\ UNCHANGED <<bucketCfg, waiter, clockVars, otherThanBucket>>

\* the setInterval callback of startRefillTimer
BucketRefillTimer ==
    LET r == refillTokens(bucketCfg, tokens, lastRefill, now)
    IN  /\ tokens' = r[1]
        /\ lastRefill' = r[2]
        /\ bucketLast' = [op |-> "refill", n |-> 0, ok |-> TRUE,
                          afterWait |-> FALSE, disturbed |-> FALSE]
        /\ UNCHANGED <<bucketCfg, waiter, clockVars, otherThanBucket>>

\* AdvancedRateLimiter.waitForToken, one pass of its loop: consume(1), and on
\* failure setTimeout(resolve, getTimeUntilNextToken()).  A timer never fires
\* before its delay has passed.
WaiterTry ==
    /\ waiter.pc = "sleeping" => now >= waiter.wakeAt
    /\ LET c == consume(bucketCfg, tokens, lastRefill, now, 1)
           w == getTimeUntilNextToken(bucketCfg, c[2])
       IN  /\ tokens' = c[2]
           /\ lastRefill' = c[3]
           /\ bucketLast' = [op |-> "waitForToken", n |-> 1, ok |-> c[1],
                             afterWait |-> waiter.pc = "sleeping",
                             disturbed |-> waiter.disturbed]
           /\ waiter' = IF c[1]
                          THEN [pc |-> "idle", wakeAt |-> 0, disturbed |-> FALSE, wait |-> 0]
                          ELSE [pc |-> "sleeping", wakeAt |-> now + w, disturbed |-> FALSE,
                                wait |-> w]
    /\ UNCHANGED <<bucketCfg, clockVars, otherThanBucket>>

BucketInstants == {1, 200, 1000, 45000, 89999, 90000, 90200, 135000, 180000}

BucketTick ==
    /\ \E t \in BucketInstants : t > now /\ now' = t
    /\ UNCHANGED <<bucketVars, waiterVars, otherThanBucket>>

\* constructor: tokens = initialTokens ?? capacity, lastRefill = Date.now()
InitBucketWith(cfg) ==
    /\ bucketCfg = cfg
    /\ tokens = cfg.initialTokens
    /\ lastRefill = 0
    /\ waiter = [pc |-> "idle", wakeAt |-> 0, disturbed |-> FALSE, wait |-> 0]
    /\ bucketLast = [op |-> "new", n |-> 0, ok |-> TRUE,
                     afterWait |-> FALSE, disturbed |-> FALSE]

InitBucket ==
    \E tier \in {"trial", "production"} : InitBucketWith(SPORTRADAR_RATE_LIMITS[tier])

NextBucket == BucketConsume \/ BucketQuery \/ BucketRefillTimer \/ WaiterTry \/ BucketTick

----------------------------------------------------------------------------
(* CacheManager (src/unnamed/part_008) *)

defaultTTL == 300000

CacheKeys == {"api:/a", "api:/b", "api:/c"}
Data == {"v1", "v2"}
\* the ttl argument of set; 0 stands for a ttl of 0 as well as an omitted one
TTLs == {0, 1000}

\* position of key in the map, 0 when it is absent
CacheIndex(c, key) ==
    IF \E i \in 1..Len(c) : c[i].key = key
      THEN CHOOSE i \in 1..Len(c) : c[i].key = key
      ELSE 0

CacheHasKey(c, key) == CacheIndex(c, key) # 0

\* this.cache.delete(key)
CacheRemove(c, key) == SelectSeq(c, LAMBDA e : e.key # key)

\* this.cache.set(key, entry): an existing key keeps its place in the order
CachePut(c, entry) ==
    IF CacheHasKey(c, entry.key)
      THEN [c EXCEPT ![CacheIndex(c, entry.key)] = entry]
      ELSE Append(c, entry)

\* the loop of evictOldest from position i on: the key it ends up with
RECURSIVE EvictScan(_, _, _, _)
EvictScan(c, i, oldestKey, oldestTime) ==
    IF i > Len(c) THEN oldestKey
    ELSE IF c[i].lastAccessed < oldestTime
           THEN EvictScan(c, i + 1, c[i].key, c[i].lastAccessed)
           ELSE EvictScan(c, i + 1, oldestKey, oldestTime)

\* evictOldest(): oldestKey = '', oldestTime = Date.now(); delete oldestKey if set
evictOldest(c, t) ==
    LET oldestKey == EvictScan(c, 1, "", t)
    IN  IF oldestKey # "" THEN CacheRemove(c, oldestKey) ELSE c

\* const timeToLive = ttl || this.config.defaultTTL
timeToLive(ttl) == IF ttl = 0 THEN defaultTTL ELSE ttl

\* an expiry test that measures from the default TTL instead of expiresAt
IsExpired_DefaultTtl(e, t) == t > e.timestamp + defaultTTL

\* the expiry test of get, has and cleanupExpired: now > entry.expiresAt
IsExpired(e, t) == t > e.expiresAt

\* persistToStorage(): the entries with now <= expiresAt
persistToStorage(c, t) == SelectSeq(c, LAMBDA e : t <= e.expiresAt)

\* loadFromStorage(): the saved entries with now <= expiresAt
loadFromStorage(st, t) == SelectSeq(st, LAMBDA e : t <= e.expiresAt)

\* the cache after set(key, data, ttl), before it is persisted
cacheAfterSet(c, key, data, ttl, t) ==
    LET room == IF Len(c) >= CacheMaxSize THEN evictOldest(c, t) ELSE c
    IN  CachePut(room, [key |-> key, data |-> data, timestamp |-> t,
                        expiresAt |-> t + timeToLive(ttl),
                        accessCount |-> 0, lastAccessed |-> t])

\* get(key): <<returned, cache afterwards>>
cacheGet_Miss(c, key, t) == <<Null, c>>
cacheGet(c, key, t) ==
    LET i == CacheIndex(c, key)
    IN  IF i = 0 THEN <<Null, c>>
        ELSE IF IsExpired(c[i], t) THEN <<Null, CacheRemove(c, key)>>
        ELSE <<c[i].data,
               [c EXCEPT ![i].accessCount = @ + 1, ![i].lastAccessed = t]>>

CacheKeySet(c) == {c[i].key : i \in 1..Len(c)}

CacheStep == cacheOps < MaxCacheOps /\ cacheOps' = cacheOps + 1

\* set(key, data, ttl)
CacheSet ==
    \E key \in CacheKeys, data \in Data, ttl \in TTLs :
        LET c2 == cacheAfterSet(cache, key, data, ttl, now)
        IN  /\ CacheStep
            /\ cache' = c2
            /\ storage' = persistToStorage(c2, now)
            /\ cacheLast' = [op |-> "set", key |-> key, ret |-> Null, at |-> now]
            /\ written' = [k \in (CacheKeySet(c2) \cap DOMAIN written) \cup {key} |->
                             IF k = key THEN [data |-> data, ttl |-> ttl, at |-> now]
                                        ELSE written[k]]
            /\ UNCHANGED <<clockVars, otherThanCache>>

\* get(key)
CacheGet ==
    \E key \in CacheKeys :
        LET g == cacheGet(cache, key, now)
        IN  /\ CacheStep
            /\ cache' = g[2]
            /\ cacheLast' = [op |-> "get", key |-> key, ret |-> g[1], at |-> now]
            /\ UNCHANGED <<storage, written, clockVars, otherThanCache>>

\* has(key)
CacheHas ==
    \E key \in CacheKeys :
        LET i == CacheIndex(cache, key)
            gone == i # 0 /\ IsExpired(cache[i], now)
        IN  /\ CacheStep
            /\ cache' = IF gone THEN CacheRemove(cache, key) ELSE cache
            /\ cacheLast' = [op |-> "has", key |-> key,
                             ret |-> IF i # 0 /\ ~gone THEN "true" ELSE "false", at |-> now]
            /\ UNCHANGED <<storage, written, clockVars, otherThanCache>>

\* delete(key)
CacheDelete ==
    \E key \in CacheKeys :
        /\ CacheStep
        /\ cache' = CacheRemove(cache, key)
        /\ storage' = IF CacheHasKey(cache, key)
                        THEN persistToStorage(CacheRemove(cache, key), now) ELSE storage
        /\ cacheLast' = [op |-> "delete", key |-> key,
                         ret |-> IF CacheHasKey(cache, key) THEN "true" ELSE "false",
                         at |-> now]
        /\ written' = [k \in (DOMAIN written) \ {key} |-> written[k]]
        /\ UNCHANGED <<clockVars, otherThanCache>>

\* clear()
CacheClear ==
    /\ CacheStep
    /\ cache' = << >>
    /\ storage' = << >>
    /\ cacheLast' = [op |-> "clear", key |-> "", ret |-> Null, at |-> now]
    /\ written' = << >>
    /\ UNCHANGED <<clockVars, otherThanCache>>

\* cleanupExpired(), the 5-minute setInterval callback
CacheCleanupExpired ==
    LET kept == SelectSeq(cache, LAMBDA e : ~IsExpired(e, now))
    IN  /\ CacheStep
        /\ cache' = kept
        /\ storage' = IF Len(kept) < Len(cache) THEN persistToStorage(kept, now) ELSE storage
        /\ cacheLast' = [op |-> "cleanup", key |-> "", ret |-> Null, at |-> now]
        /\ written' = [k \in CacheKeySet(kept) \cap DOMAIN written |-> written[k]]
        /\ UNCHANGED <<clockVars, otherThanCache>>

\* a page reload: a new CacheManager whose constructor runs loadFromStorage()
CacheReload ==
    LET loaded == loadFromStorage(storage, now)
    IN  /\ CacheStep
        /\ cache' = loaded
        /\ cacheLast' = [op |-> "load", key |-> "", ret |-> Null, at |-> now]
        /\ written' = << >>
        /\ UNCHANGED <<storage, clockVars, otherThanCache>>

CacheInstants == {500, 1000, 1500, 300500}

CacheTick ==
    /\ \E t \in CacheInstants : t > now /\ now' = t
    /\ UNCHANGED <<cacheVars, otherThanCache>>

InitCache ==
    /\ cache = << >>
    /\ storage = << >>
    /\ cacheOps = 0
    /\ cacheLast = [op |-> "new", key |-> "", ret |-> Null, at |-> 0]
    /\ written = << >>

NextCache ==
    \/ CacheSet \/ CacheGet \/ CacheHas \/ CacheDelete \/ CacheClear
    \/ CacheCleanupExpired \/ CacheReload \/ CacheTick

----------------------------------------------------------------------------
(* AdvancedRateLimiter (src/src/services/advancedRateLimiter.ts) *)

circuitBreakerThreshold == 5
circuitBreakerResetTime == 300000
\* new AdvancedRateLimiter(1/90, 1, 1): the client's maxRetries
maxRetries == 1

\* what a call of requestFn can end with: a response, a 429 without and with
\* a Retry-After of 60 s, and an error that is no rate-limit error
Outcomes == {"ok", "429", "429_retry_after", "error"}
Jitter == {0, 999}

\* a QueuedRequest: its retryCount, how often its requestFn was called, and
\* the invocation of the client's request closure it belongs to (0: none)
NewRequest == [retryCount |-> 0, execs |-> 0, inv |-> 0]

\* isCircuitBreakerOpen(): <<returned, circuitBreakerFailures, lastCircuitBreakerTrip>>
isCircuitBreakerOpen(failures, trip, t) ==
    IF failures >= circuitBreakerThreshold
      THEN IF t - trip < circuitBreakerResetTime
             THEN <<TRUE, failures, trip>>
             ELSE <<FALSE, 0, 0>>
      ELSE <<FALSE, failures, trip>>

\* handleRequestError: isRateLimitError
isRateLimitError(outcome) == outcome \in {"429", "429_retry_after"}

RECURSIVE Pow2(_)
Pow2(n) == IF n = 0 THEN 1 ELSE 2 * Pow2(n - 1)

\* the Retry-After seconds an outcome carries (0: none)
RetryAfterOf(outcome) == IF outcome = "429_retry_after" THEN 60 ELSE 0

\* calculateBackoffDelay(retryCount, error) with Math.random() * 1000 = jitter;
\* retryAfter is error.retryAfter (0 or undefined: falsy), is429Error the
\* test of the error's status and message
calculateBackoffDelay(retryCount, retryAfter, is429Error, jitter) ==
    IF retryAfter # 0 THEN retryAfter * 1000
    ELSE IF is429Error
           THEN Min(120000 * Pow2(retryCount) + jitter, 900000)
           ELSE Min(30000 * Pow2(retryCount) + jitter, 300000)

\* the limiter and its bucket as one record, for the steps that run several
\* methods before they give up control
AdvState ==
    [queue |-> advQueue, isProcessing |-> isProcessing,
     failures |-> circuitBreakerFailures, trip |-> lastCircuitBreakerTrip,
     loop |-> advLoop, timers |-> advTimers, breaker |-> advBreaker,
     active |-> advActive,
     tokens |-> tokens, lastRefill |-> lastRefill]

AdvCommit(s) ==
    /\ advQueue' = s.queue
    /\ isProcessing' = s.isProcessing
    /\ circuitBreakerFailures' = s.failures
    /\ lastCircuitBreakerTrip' = s.trip
    /\ advLoop' = s.loop
    /\ advTimers' = s.timers
    /\ advBreaker' = s.breaker
    /\ advActive' = s.active
    /\ tokens' = s.tokens
    /\ lastRefill' = s.lastRefill

\* waitForToken() for the request in s.loop.cur, one pass: consume(1), then
\* requestFn() is called, or setTimeout(getTimeUntilNextToken())
waitForToken_CanConsume(s, t) ==
    LET r == refillTokens(bucketCfg, s.tokens, s.lastRefill, t)
    IN  IF r[1] >= 1
          THEN [s EXCEPT !.tokens = r[1], !.lastRefill = r[2],
                         !.loop = [pc |-> "inflight", wake |-> 0,
                                   cur |-> [s.loop.cur EXCEPT !.execs = @ + 1]]]
          ELSE [s EXCEPT !.tokens = r[1], !.lastRefill = r[2],
                         !.loop = [pc |-> "sleeping", cur |-> s.loop.cur,
                                   wake |-> t + getTimeUntilNextToken(bucketCfg, r[1])]]
waitForToken(s, t) ==
    LET c == consume(bucketCfg, s.tokens, s.lastRefill, t, 1)
    IN  IF c[1]
          THEN [s EXCEPT !.tokens = c[2], !.lastRefill = c[3],
                         !.loop = [pc |-> "inflight", wake |-> 0,
                                   cur |-> [s.loop.cur EXCEPT !.execs = @ + 1]]]
          ELSE [s EXCEPT !.tokens = c[2], !.lastRefill = c[3],
                         !.loop = [pc |-> "sleeping", cur |-> s.loop.cur,
                                   wake |-> t + getTimeUntilNextToken(bucketCfg, c[2])]]

\* the while loop of processQueue from its head: shift() and wait for a token,
\* or leave with isProcessing = false
AdvLoopHead(s, t) ==
    IF Len(s.queue) > 0
      THEN waitForToken([s EXCEPT !.queue = Tail(s.queue),
                                  !.loop = [pc |-> "shifted", cur |-> Head(s.queue),
                                            wake |-> 0]], t)
      ELSE [s EXCEPT !.isProcessing = FALSE,
                     !.active = @ - 1,
                     !.loop = [pc |-> "idle", cur |-> NewRequest, wake |-> 0]]

\* processQueue()
processQueue_Busy(s, t) == s
processQueue_Unguarded(s, t) ==
    IF Len(s.queue) = 0 THEN s
    ELSE AdvLoopHead([s EXCEPT !.isProcessing = TRUE, !.active = @ + 1], t)
processQueue(s, t) ==
    IF s.isProcessing \/ Len(s.queue) = 0 THEN s
    ELSE AdvLoopHead([s EXCEPT !.isProcessing = TRUE, !.active = @ + 1], t)

\* the breaker's history after one more recorded failure at time t
BreakerAfterFailure(b, threshold, t) ==
    [consec |-> b.consec + 1,
     opened |-> b.opened \/ b.consec + 1 >= threshold,
     openedAt |-> IF ~b.opened /\ b.consec + 1 >= threshold THEN t ELSE b.openedAt,
     last |-> "failure"]

BreakerClosed(what) == [consec |-> 0, opened |-> FALSE, openedAt |-> 0, last |-> what]

\* the lines of handleRequestError after the retry branch: count the failure,
\* stamp lastCircuitBreakerTrip at the threshold, reject
AdvRecordFailure(s, t) ==
    LET f == s.failures + 1
    IN  [s EXCEPT !.failures = f,
                  !.trip = IF f >= circuitBreakerThreshold THEN t ELSE @,
                  !.breaker = BreakerAfterFailure(@, circuitBreakerThreshold, t)]

\* handleRequestError(request, error)
handleRequestError_RetriesAtMax(s, outcome, jitter, t) ==
    LET r == s.loop.cur
    IN  IF isRateLimitError(outcome) /\ r.retryCount <= maxRetries
          THEN [s EXCEPT !.timers = Append(@,
                    [req |-> [r EXCEPT !.retryCount = @ + 1],
                     fireAt |-> t + calculateBackoffDelay(r.retryCount, RetryAfterOf(outcome),
                                                         outcome # "error", jitter)])]
          ELSE AdvRecordFailure(s, t)
handleRequestError_RejectsRetried(s, outcome, jitter, t) ==
    LET r == s.loop.cur
    IN  IF isRateLimitError(outcome) /\ r.retryCount < maxRetries
          THEN AdvRecordFailure([s EXCEPT !.timers = Append(@,
                    [req |-> [r EXCEPT !.retryCount = @ + 1],
                     fireAt |-> t + calculateBackoffDelay(r.retryCount, RetryAfterOf(outcome),
                                                         outcome # "error", jitter)])], t)
          ELSE AdvRecordFailure(s, t)
handleRequestError(s, outcome, jitter, t) ==
    LET r == s.loop.cur
    IN  IF isRateLimitError(outcome) /\ r.retryCount < maxRetries
          THEN [s EXCEPT !.timers = Append(@,
                    [req |-> [r EXCEPT !.retryCount = @ + 1],
                     fireAt |-> t + calculateBackoffDelay(r.retryCount, RetryAfterOf(outcome),
                                                         outcome # "error", jitter)])]
          ELSE AdvRecordFailure(s, t)

\* the try block of processQueue after requestFn() succeeded
AdvSuccess(s) ==
    [s EXCEPT !.failures = 0, !.breaker = BreakerClosed("success")]

\* the requests the limiter holds
AdvLive == Len(advQueue) + Len(advTimers) + (IF advLoop.pc = "idle" THEN 0 ELSE 1)

\* what an admission query leaves of the breaker's history
AdvAfterQuery(b, rejected) ==
    IF b[2] # circuitBreakerFailures THEN BreakerClosed("reset")
    ELSE IF rejected THEN [advBreaker EXCEPT !.last = "rejected"]
    ELSE advBreaker

\* makeRequest(requestFn)
makeRequest_NoBreaker(s, t, inv) ==
    processQueue([s EXCEPT !.queue = Append(@, [NewRequest EXCEPT !.inv = inv])], t)
makeRequest(s, t, inv) ==
    LET b == isCircuitBreakerOpen(s.failures, s.trip, t)
    IN  IF b[1]
          THEN [s EXCEPT !.breaker = AdvAfterQuery(b, TRUE)]
          ELSE processQueue([s EXCEPT !.failures = b[2], !.trip = b[3],
                                      !.breaker = AdvAfterQuery(b, FALSE),
                                      !.queue = Append(@, [NewRequest EXCEPT !.inv = inv])], t)

AdvMakeRequest ==
    /\ AdvLive < MaxAdvLive
    /\ AdvCommit(makeRequest(AdvState, now, 0))
    /\ UNCHANGED <<clockVars, otherThanAdv>>

\* the timer of waitForToken fires: consume(1) again
AdvTokenTimer ==
    /\ advLoop.pc = "sleeping" /\ now >= advLoop.wake
    /\ AdvCommit(waitForToken(AdvState, now))
    /\ UNCHANGED <<clockVars, otherThanAdv>>

\* requestFn() of the current request settles; the loop goes on to the next one
AdvResponse ==
    /\ advLoop.pc = "inflight"
    /\ \E outcome \in Outcomes :
       \E jitter \in IF outcome = "429" THEN Jitter ELSE {0} :
          /\ AdvCommit(AdvLoopHead(
                 IF outcome = "ok" THEN AdvSuccess(AdvState)
                 ELSE handleRequestError(AdvState, outcome, jitter, now), now))
    /\ UNCHANGED <<clockVars, otherThanAdv>>

\* timers fire in the order of their times, then of their creation
TimerIsNext(timers, i) ==
    \A j \in 1..Len(timers) :
        j # i => \/ timers[j].fireAt > timers[i].fireAt
                 \/ (timers[j].fireAt = timers[i].fireAt /\ j > i)

SeqRemove(q, i) == SubSeq(q, 1, i - 1) \o SubSeq(q, i + 1, Len(q))

\* the retry timer of handleRequestError fires: unshift(request), processQueue()
AdvRetryTimer ==
    /\ \E i \in 1..Len(advTimers) :
          /\ now >= advTimers[i].fireAt
          /\ TimerIsNext(advTimers, i)
          /\ AdvCommit(processQueue(
                 [AdvState EXCEPT !.timers = SeqRemove(@, i),
                                  !.queue = <<advTimers[i].req>> \o @], now))
    /\ UNCHANGED <<clockVars, otherThanAdv>>

\* getCircuitBreakerStatus(): an admission query from outside
AdvBreakerStatus ==
    /\ LET b == isCircuitBreakerOpen(circuitBreakerFailures, lastCircuitBreakerTrip, now)
       IN  /\ circuitBreakerFailures' = b[2]
           /\ lastCircuitBreakerTrip' = b[3]
           /\ advBreaker' = AdvAfterQuery(b, FALSE)
    /\ UNCHANGED <<advQueue, isProcessing, advLoop, advTimers, advActive,
                   tokens, lastRefill, clockVars, otherThanAdv>>

\* the bucket's setInterval refill while the limiter runs
AdvRefillTimer ==
    LET r == refillTokens(bucketCfg, tokens, lastRefill, now)
    IN  /\ tokens' = r[1]
        /\ lastRefill' = r[2]
        /\ UNCHANGED <<advVars, clockVars, otherThanAdv>>

AdvInstants == {90000, 180000, 270000, 360000, 450000, 659999, 660000, 750000}

AdvTick ==
    /\ \E t \in AdvInstants : t > now /\ now' = t
    /\ UNCHANGED <<advVars, tokens, lastRefill, otherThanAdv>>

InitAdv ==
    /\ advQueue = << >>
    /\ isProcessing = FALSE
    /\ circuitBreakerFailures = 0
    /\ lastCircuitBreakerTrip = 0
    /\ advLoop = [pc |-> "idle", cur |-> NewRequest, wake |-> 0]
    /\ advTimers = << >>
    /\ advBreaker = BreakerClosed("new")
    /\ advActive = 0

NextAdv ==
    \/ AdvMakeRequest \/ AdvTokenTimer \/ AdvResponse \/ AdvRetryTimer
    \/ AdvBreakerStatus \/ AdvRefillTimer \/ AdvTick

----------------------------------------------------------------------------
(* EnhancedRateLimiter (src/unnamed/part_006) *)

maxConsecutiveFailures == 3
circuitBreakerTimeout == 300000
\* detectAndConfigureApiTier(): the trial tier
maxRequests == 1
timeWindow == 120000
minimumRequestInterval == 120000
\* processSingleRequest: const maxRetries = 2
enhMaxRetries == 2

Priorities == {0, 1, 2}
\* remainingRequests and resetTime before any header was seen (null)
NoNumber == 0 - 1
\* the rate-limit headers of a response: remaining, and reset in seconds
Headers == {[remaining |-> 0, reset |-> 300]}
EnhJitter == {0, 9999}
NoHeaders == [remaining |-> NoNumber, reset |-> NoNumber]
NoEnhRequest == [id |-> 0, priority |-> 0]

RECURSIVE SeqMax(_)
SeqMax(q) == IF q = << >> THEN 0 ELSE Max(Head(q), SeqMax(Tail(q)))

RECURSIVE SeqFilterRecent(_, _)
\* this.requests.filter((time) => now - time < this.timeWindow)
SeqFilterRecent(q, t) ==
    IF q = << >> THEN << >>
    ELSE IF t - Head(q) < timeWindow
           THEN <<Head(q)>> \o SeqFilterRecent(Tail(q), t)
           ELSE SeqFilterRecent(Tail(q), t)

EnhState ==
    [requests |-> requests, retryCount |-> enhRetryCount, headers |-> headerState,
     queue |-> requestQueue, isProcessing |-> enhIsProcessing,
     open |-> circuitBreakerOpen, openTime |-> circuitBreakerOpenTime,
     failures |-> consecutiveFailures, loop |-> enhLoop, kicks |-> enhKicks,
     breaker |-> enhBreaker, scheduled |-> scheduled, dispatched |-> lastDispatch,
     active |-> enhActive]

EnhCommit(s) ==
    /\ requests' = s.requests
    /\ enhRetryCount' = s.retryCount
    /\ headerState' = s.headers
    /\ requestQueue' = s.queue
    /\ enhIsProcessing' = s.isProcessing
    /\ circuitBreakerOpen' = s.open
    /\ circuitBreakerOpenTime' = s.openTime
    /\ consecutiveFailures' = s.failures
    /\ enhLoop' = s.loop
    /\ enhKicks' = s.kicks
    /\ enhBreaker' = s.breaker
    /\ scheduled' = s.scheduled
    /\ lastDispatch' = s.dispatched
    /\ enhActive' = s.active

\* updateFromHeaders(headers) with both headers present; apiTier is 'trial'
updateFromHeaders(s, h, t) ==
    [s EXCEPT !.headers = [remainingRequests |-> h.remaining,
                           resetTime |-> h.reset * 1000,
                           lastHeaderUpdate |-> t]]

\* canMakeRequest: has the breaker's timeout passed
BreakerTimedOut(t, openTime) == t - openTime > circuitBreakerTimeout

\* canMakeRequest(): <<returned, the limiter after it>>
canMakeRequest(s, t) ==
    LET closing == s.open /\ BreakerTimedOut(t, s.openTime)
        s1 == IF closing
                THEN [s EXCEPT !.open = FALSE, !.failures = 0,
                               !.breaker = BreakerClosed("reset")]
                ELSE s
        filtered == SeqFilterRecent(s1.requests, t)
    IN  IF s.open /\ ~closing THEN <<FALSE, s>>
        ELSE IF /\ s1.headers.remainingRequests # NoNumber
                /\ t - s1.headers.lastHeaderUpdate < 30000
                /\ s1.headers.remainingRequests <= 0 THEN <<FALSE, s1>>
        ELSE IF /\ Len(s1.requests) > 0
                /\ t - SeqMax(s1.requests) < minimumRequestInterval THEN <<FALSE, s1>>
        ELSE <<Len(filtered) < maxRequests, [s1 EXCEPT !.requests = filtered]>>

\* recordRequest() without headers
recordRequest(s, t) ==
    [s EXCEPT !.requests = Append(@, t),
              !.retryCount = 0,
              !.failures = 0,
              !.breaker = BreakerClosed("success"),
              !.headers.remainingRequests =
                  IF @ # NoNumber THEN Max(0, @ - 1) ELSE @]

\* recordFailure()
recordFailure_Late(s, t) ==
    [s EXCEPT !.failures = @ + 1,
              !.open = @ \/ s.failures + 1 > maxConsecutiveFailures,
              !.openTime = IF s.failures + 1 > maxConsecutiveFailures THEN t ELSE @,
              !.breaker = BreakerAfterFailure(@, maxConsecutiveFailures, t)]
recordFailure(s, t) ==
    [s EXCEPT !.failures = @ + 1,
              !.open = @ \/ s.failures + 1 >= maxConsecutiveFailures,
              !.openTime = IF s.failures + 1 >= maxConsecutiveFailures THEN t ELSE @,
              !.breaker = BreakerAfterFailure(@, maxConsecutiveFailures, t)]

\* getRetryDelay(retryAfterHeader, isRateLimitError): <<delay, this.retryCount>>
getRetryDelay(s, retryAfter, rateLimited, jitter, t) ==
    IF retryAfter # 0 THEN <<retryAfter * 1000, s.retryCount>>
    ELSE IF rateLimited
      THEN IF s.headers.resetTime # NoNumber /\ s.headers.resetTime # 0
                /\ t < s.headers.resetTime
             THEN <<(s.headers.resetTime - t) + 30000, s.retryCount>>
             ELSE <<Min(300000, 120000 * Pow2(s.retryCount)), s.retryCount>>
      ELSE <<Min(30000 * Pow2(s.retryCount), 300000) + jitter, s.retryCount + 1>>

\* scheduleRequest: the index the new request is inserted at (0: push)
insertIndex_BeforeEqual(q, priority) ==
    IF \E i \in 1..Len(q) : q[i].priority <= priority
      THEN CHOOSE i \in 1..Len(q) :
             /\ q[i].priority <= priority
             /\ \A j \in 1..(i - 1) : ~(q[j].priority <= priority)
      ELSE 0
insertIndex(q, priority) ==
    IF \E i \in 1..Len(q) : q[i].priority < priority
      THEN CHOOSE i \in 1..Len(q) :
             /\ q[i].priority < priority
             /\ \A j \in 1..(i - 1) : ~(q[j].priority < priority)
      ELSE 0

\* scheduleRequest: does it reject with "Circuit breaker is open"
scheduleRejects(s, t) == s.open /\ t - s.openTime < circuitBreakerTimeout

\* scheduleRequest(requestFn, endpoint, priority)
scheduleRequest(s, priority, t) ==
    IF scheduleRejects(s, t)
      THEN [s EXCEPT !.breaker.last = "rejected"]
      ELSE LET r == [id |-> s.scheduled + 1, priority |-> priority]
               i == insertIndex(s.queue, priority)
           IN  [s EXCEPT !.queue = IF i = 0 THEN Append(@, r)
                                   ELSE SubSeq(@, 1, i - 1) \o <<r>> \o SubSeq(@, i, Len(@)),
                         !.scheduled = @ + 1,
                         !.kicks = @ + 1]

\* processSingleRequest, the retry loop from its head: the final check, then
\* request.execute() or a sleep of 5 s
EnhAttempt(s, t) ==
    LET c == canMakeRequest(s, t)
    IN  IF c[1]
          THEN [c[2] EXCEPT !.loop.pc = "inflight", !.loop.wake = 0, !.dispatched = t]
          ELSE [c[2] EXCEPT !.loop.pc = "final_wait", !.loop.wake = t + 5000]

\* processSingleRequest after its wait loop: shift() and the first attempt
EnhShift(s, t) ==
    EnhAttempt([s EXCEPT !.queue = Tail(@),
                         !.loop = [pc |-> "shifted", cur |-> Head(s.queue),
                                   attempt |-> 1, waitCount |-> 0, wake |-> 0]], t)

\* processSingleRequest, the wait loop from its head
EnhWaitLoop(s, t) ==
    LET c == canMakeRequest(s, t)
        n == s.loop.waitCount + 1
    IN  IF c[1] THEN EnhShift(c[2], t)
        ELSE [c[2] EXCEPT !.loop.pc = "waiting", !.loop.waitCount = n,
                          !.loop.wake = t + Min(5000 * n, 30000)]

\* processQueue, the while loop from its head
EnhLoopHead(s, t) ==
    IF Len(s.queue) > 0
      THEN EnhWaitLoop([s EXCEPT !.loop = [pc |-> "single", cur |-> NoEnhRequest,
                                           attempt |-> 0, waitCount |-> 0, wake |-> 0]], t)
      ELSE [s EXCEPT !.isProcessing = FALSE,
                     !.active = @ - 1,
                     !.loop = [pc |-> "idle", cur |-> NoEnhRequest,
                               attempt |-> 0, waitCount |-> 0, wake |-> 0]]

\* processQueue after processSingleRequest returned: the delay between items
EnhAfterSingle(s, t) ==
    IF Len(s.queue) > 0
      THEN [s EXCEPT !.loop = [pc |-> "gap", cur |-> NoEnhRequest,
                               attempt |-> 0, waitCount |-> 0, wake |-> t + 1000]]
      ELSE EnhLoopHead(s, t)

\* processQueue()
enhProcessQueue(s, t) ==
    IF s.isProcessing \/ Len(s.queue) = 0 THEN s
    ELSE EnhLoopHead([s EXCEPT !.isProcessing = TRUE, !.active = @ + 1], t)

\* processSingleRequest after request.execute() settled
EnhSettled(s, outcome, jitter, t) ==
    IF outcome = "ok" THEN EnhAfterSingle(recordRequest(s, t), t)
    ELSE LET s1 == IF isRateLimitError(outcome) THEN recordFailure(s, t) ELSE s
             d  == getRetryDelay(s1, RetryAfterOf(outcome), isRateLimitError(outcome),
                                 jitter, t)
         IN  IF s1.loop.attempt >= enhMaxRetries THEN EnhAfterSingle(s1, t)
             ELSE [s1 EXCEPT !.retryCount = d[2],
                             !.loop.pc = "retry_sleep", !.loop.wake = t + d[1]]

EnhSchedule ==
    /\ scheduled < MaxScheduled
    /\ \E priority \in Priorities : EnhCommit(scheduleRequest(EnhState, priority, now))
    /\ UNCHANGED <<clockVars, otherThanEnh>>

\* a timer of scheduleRequest fires: processQueue()
EnhKick ==
    /\ enhKicks > 0
    /\ EnhCommit(enhProcessQueue([EnhState EXCEPT !.kicks = @ - 1], now))
    /\ UNCHANGED <<clockVars, otherThanEnh>>

\* the sleep of the wait loop ends
EnhWaitWake ==
    /\ enhLoop.pc = "waiting" /\ now >= enhLoop.wake
    /\ EnhCommit(IF enhLoop.waitCount > 20 THEN EnhShift(EnhState, now)
                 ELSE EnhWaitLoop(EnhState, now))
    /\ UNCHANGED <<clockVars, otherThanEnh>>

\* the 5 s sleep after a failed final check ends
EnhFinalWake ==
    /\ enhLoop.pc = "final_wait" /\ now >= enhLoop.wake
    /\ EnhCommit(EnhAttempt(EnhState, now))
    /\ UNCHANGED <<clockVars, otherThanEnh>>

\* the client's response interceptor, then request.execute() settles: a
\* response with rate-limit headers goes to updateFromHeaders, an error is
\* logged with getStatus()
EnhResponse ==
    /\ enhLoop.pc = "inflight"
    /\ \E outcome \in Outcomes, h \in Headers \cup {NoHeaders} :
       \E jitter \in IF outcome = "error" THEN EnhJitter ELSE {0} :
          /\ LET s1 == IF h = NoHeaders THEN EnhState
                       ELSE updateFromHeaders(EnhState, h, now)
                 s2 == IF outcome = "ok" THEN s1 ELSE canMakeRequest(s1, now)[2]
             IN  EnhCommit(EnhSettled(s2, outcome, jitter, now))
    /\ UNCHANGED <<clockVars, otherThanEnh>>

\* the sleep before the next attempt ends: attempt++
EnhRetryWake ==
    /\ enhLoop.pc = "retry_sleep" /\ now >= enhLoop.wake
    /\ EnhCommit(EnhAttempt([EnhState EXCEPT !.loop.attempt = @ + 1], now))
    /\ UNCHANGED <<clockVars, otherThanEnh>>

\* the 1 s delay between two queue items ends
EnhGapWake ==
    /\ enhLoop.pc = "gap" /\ now >= enhLoop.wake
    /\ EnhCommit(EnhLoopHead(EnhState, now))
    /\ UNCHANGED <<clockVars, otherThanEnh>>

\* getStatus(): canMakeRequest() called from outside
EnhGetStatus ==
    /\ LET c == canMakeRequest(EnhState, now)
       IN  EnhCommit(c[2])
    /\ UNCHANGED <<clockVars, otherThanEnh>>

EnhInstants == {120000, 240000, 539999, 540000, 540001}

\* time passes; a timer of 0 ms has fired before it does
EnhTick ==
    /\ enhKicks = 0
    /\ \E t \in EnhInstants : t > now /\ now' = t
    /\ UNCHANGED <<enhVars, otherThanEnh>>

InitEnh ==
    /\ requests = << >>
    /\ enhRetryCount = 0
    /\ headerState = [remainingRequests |-> NoNumber, resetTime |-> NoNumber,
                      lastHeaderUpdate |-> 0]
    /\ requestQueue = << >>
    /\ enhIsProcessing = FALSE
    /\ circuitBreakerOpen = FALSE
    /\ circuitBreakerOpenTime = 0
    /\ consecutiveFailures = 0
    /\ enhLoop = [pc |-> "idle", cur |-> NoEnhRequest, attempt |-> 0,
                  waitCount |-> 0, wake |-> 0]
    /\ enhKicks = 0
    /\ enhBreaker = BreakerClosed("new")
    /\ scheduled = 0
    /\ lastDispatch = NoNumber
    /\ enhActive = 0

NextEnh ==
    \/ EnhSchedule \/ EnhKick \/ EnhWaitWake \/ EnhFinalWake \/ EnhResponse
    \/ EnhRetryWake \/ EnhGapWake \/ EnhGetStatus \/ EnhTick

----------------------------------------------------------------------------
(* SportradarAPI.request (src/src/services/sportradarAPI.ts) *)

Endpoints == {"/a", "/live/b"}
baseURL == "https://api.sportradar.com"

\* const deduplicationKey = `${this.client.defaults.baseURL}${endpoint}`
deduplicationKey(e) == baseURL \o e
EndpointOf(key) == CHOOSE e \in Endpoints : deduplicationKey(e) = key

\* getCachedApiResponse / setCachedApiResponse: `api:${endpoint}`
apiCacheKey(e) == "api:" \o e

\* getTTLForEndpoint(endpoint)
getTTLForEndpoint(e) == IF e = "/live/b" THEN 120000 ELSE 60 * 60 * 1000

\* an invocation of the request closure whose promise is settled already and
\* whose .finally() has not run yet
MicrotaskPending ==
    \E i \in 1..Len(invs) : invs[i].state = "pending" /\ invs[i].kind \in {"hit", "refused"}

\* request(endpoint) up to its first await: deduplicate; for a new invocation
\* the cache lookup and, on a miss, rateLimiter.makeRequest
ClientRequest ==
    /\ \E e \in Endpoints :
          LET key     == deduplicationKey(e)
              cleaned == cleanupExpiredRequests(pendingRequests, now)
              g       == cacheGet(cache, apiCacheKey(e), now)
              refused == isCircuitBreakerOpen(circuitBreakerFailures,
                                              lastCircuitBreakerTrip, now)[1]
          IN  /\ deduplicate(key, IF g[1] # Null THEN "hit"
                                  ELSE IF refused THEN "refused" ELSE "call", g[1])
              /\ clientLast' = key
              /\ IF HasExisting(cleaned, key)
                   THEN UNCHANGED <<cache, advVars, tokens, lastRefill>>
                   ELSE /\ cache' = g[2]
                        /\ IF g[1] # Null
                             THEN UNCHANGED <<advVars, tokens, lastRefill>>
                             ELSE AdvCommit(makeRequest(AdvState, now, Len(invs) + 1))
    /\ UNCHANGED <<clockVars, storage, otherThanClient>>

\* the closure returned the cached value, or makeRequest rejected: the promise
\* settles and .finally() deletes the record
ClientMicrotask ==
    /\ \E i \in 1..Len(invs) :
          /\ invs[i].kind \in {"hit", "refused"}
          /\ SettleInvocation(i, IF invs[i].kind = "hit" THEN "resolved" ELSE "rejected",
                              invs[i].value, 0)
    /\ clientLast' = Null
    /\ UNCHANGED <<clockVars, cache, storage, advVars, tokens, lastRefill, otherThanClient>>

\* client.get(endpoint) settles: the limiter's drain loop goes on; when the
\* limiter settles the request, the closure caches the response or rethrows,
\* and .finally() deletes the record
ClientResponse ==
    /\ ~MicrotaskPending
    /\ advLoop.pc = "inflight"
    /\ \E outcome \in Outcomes :
       \E jitter \in IF outcome = "429" THEN Jitter ELSE {0} :
       \E data \in IF outcome = "ok" THEN Data ELSE {Null} :
          LET r == advLoop.cur
              e == EndpointOf(invs[r.inv].key)
              retried == isRateLimitError(outcome) /\ r.retryCount < maxRetries
              c1 == cacheAfterSet(cache, apiCacheKey(e), data, getTTLForEndpoint(e), now)
          IN  /\ AdvCommit(AdvLoopHead(
                     IF outcome = "ok" THEN AdvSuccess(AdvState)
                     ELSE handleRequestError(AdvState, outcome, jitter, now), now))
              /\ IF retried THEN UNCHANGED <<dedupVars, cache, storage>>
                 ELSE /\ SettleInvocation(r.inv,
                            IF outcome = "ok" THEN "resolved" ELSE "rejected", data, r.execs)
                      /\ IF outcome = "ok"
                           THEN cache' = c1 /\ storage' = persistToStorage(c1, now)
                           ELSE UNCHANGED <<cache, storage>>
    /\ clientLast' = Null
    /\ UNCHANGED <<clockVars, otherThanClient>>

ClientTokenTimer ==
    /\ ~MicrotaskPending
    /\ advLoop.pc = "sleeping" /\ now >= advLoop.wake
    /\ AdvCommit(waitForToken(AdvState, now))
    /\ clientLast' = Null
    /\ UNCHANGED <<clockVars, dedupVars, cache, storage, otherThanClient>>

ClientRetryTimer ==
    /\ ~MicrotaskPending
    /\ \E i \in 1..Len(advTimers) :
          /\ now >= advTimers[i].fireAt
          /\ TimerIsNext(advTimers, i)
          /\ AdvCommit(processQueue(
                 [AdvState EXCEPT !.timers = SeqRemove(@, i),
                                  !.queue = <<advTimers[i].req>> \o @], now))
    /\ clientLast' = Null
    /\ UNCHANGED <<clockVars, dedupVars, cache, storage, otherThanClient>>

ClientInstants == {30001, 90000, 210001}

ClientTick ==
    /\ ~MicrotaskPending
    /\ \E t \in ClientInstants : t > now /\ now' = t
    /\ clientLast' = Null
    /\ UNCHANGED <<dedupVars, cache, storage, advVars, tokens, lastRefill, otherThanClient>>

InitClient == clientLast = Null

NextClient ==
    \/ ClientRequest \/ ClientMicrotask \/ ClientResponse
    \/ ClientTokenTimer \/ ClientRetryTimer \/ ClientTick

----------------------------------------------------------------------------
(* Retry delays: calculateBackoffDelay and getRetryDelay on their own *)

\* private maxRetries = 3, the default of the AdvancedRateLimiter
defaultMaxRetries == 3
\* the Retry-After seconds of a failure (0: no header)
RetryAfters == {0, 60, 120, 1000}
\* this.resetTime of the EnhancedRateLimiter when the failure arrives
ResetTimes == {NoNumber, 200000, 600000}

BackoffItem(limiter, retryCount) ==
    [limiter |-> limiter, retryCount |-> retryCount, count |-> 0, prev |-> NoNumber,
     plain |-> NoNumber, returned |-> NoNumber, cap |-> NoNumber]

\* handleRequestError of the AdvancedRateLimiter for one more rate-limit error
\* of the same request: the delay of its retry timer, then request.retryCount++.
\* is429Error is false for an error without status 429 whose message has
\* "rate limit" in it, but neither "Rate limit" nor "429".
AdvBackoffFailure ==
    /\ backoff.limiter = "advanced"
    /\ backoff.retryCount < defaultMaxRetries
    /\ \E retryAfter \in RetryAfters, is429Error \in BOOLEAN, jitter \in Jitter :
          backoff' = [backoff EXCEPT
              !.retryCount = @ + 1,
              !.count = @ + 1,
              !.prev = backoff.plain,
              !.plain = calculateBackoffDelay(backoff.retryCount, retryAfter, is429Error, 0),
              !.returned = calculateBackoffDelay(backoff.retryCount, retryAfter,
                                                 is429Error, jitter),
              !.cap = IF is429Error THEN 900000 ELSE 300000]
    /\ UNCHANGED otherThanBackoff

\* makeRequest queues another request: retryCount: 0
AdvBackoffNextItem ==
    /\ backoff.limiter = "advanced"
    /\ backoff.count > 0
    /\ backoff' = BackoffItem("advanced", 0)
    /\ UNCHANGED otherThanBackoff

\* processSingleRequest of the EnhancedRateLimiter after a failed first
\* attempt: getRetryDelay(retryAfter, isRateLimitError)
EnhBackoffFailure ==
    /\ backoff.limiter = "enhanced"
    /\ backoff.count < enhMaxRetries - 1
    /\ backoff.retryCount < MaxRetryCount
    /\ \E retryAfter \in RetryAfters, rateLimited \in BOOLEAN,
          jitter \in EnhJitter, resetTime \in ResetTimes :
          LET s == [retryCount |-> backoff.retryCount,
                    headers |-> [resetTime |-> resetTime]]
              d == getRetryDelay(s, retryAfter, rateLimited, jitter, now)
          IN  backoff' = [backoff EXCEPT
                  !.retryCount = d[2],
                  !.count = @ + 1,
                  !.prev = backoff.plain,
                  !.plain = getRetryDelay(s, retryAfter, rateLimited, 0, now)[1],
                  !.returned = d[1],
                  !.cap = 300000]
    /\ UNCHANGED otherThanBackoff

\* the next queue item of the EnhancedRateLimiter; this.retryCount is reset by
\* recordRequest when the retry succeeded and kept when it failed
EnhBackoffNextItem ==
    /\ backoff.limiter = "enhanced"
    /\ backoff.count > 0
    /\ \E succeeded \in BOOLEAN :
          backoff' = BackoffItem("enhanced", IF succeeded THEN 0 ELSE backoff.retryCount)
    /\ UNCHANGED otherThanBackoff

InitBackoff == backoff = BackoffItem("advanced", 0)

NextBackoff ==
    \/ AdvBackoffFailure \/ AdvBackoffNextItem
    \/ EnhBackoffFailure \/ EnhBackoffNextItem

----------------------------------------------------------------------------
(* A failing call: the response interceptor of the client               *)
(* (src/src/services/sportradarAPI.ts) and the retry decision of the    *)
(* limiter that runs the call                                           *)

Statuses == {400, 401, 403, 404, 429, 500, 502, 503, 504}
AxiosCodes == {"ECONNABORTED", "ENOTFOUND", "ERR_NETWORK"}
Undefined == "undefined"

\* the AxiosError the interceptor is given: one with error.response (status,
\* retry-after header in seconds with 0 for none, data.code), one with
\* error.request only (error.code), one with neither
TransportErrors ==
    [kind : {"response"}, status : Statuses, retryAfter : {0, 60},
     code : {"ERR_BAD_RESPONSE"}, dataCode : {Undefined, "quota"}]
    \cup [kind : {"request"}, status : {0}, retryAfter : {0},
          code : AxiosCodes, dataCode : {Undefined}]
    \cup [kind : {"setup"}, status : {0}, retryAfter : {0},
          code : {Undefined}, dataCode : {Undefined}]

NoTransport == [kind |-> "none", status |-> 0, retryAfter |-> 0,
                code |-> Undefined, dataCode |-> Undefined]

\* new APIError(message, status, code, retryAfter); 0 stands for undefined
APIError(message, status, code, retryAfter) ==
    [message |-> message, status |-> status, code |-> code, retryAfter |-> retryAfter]

NoError == APIError("", 0, Undefined, 0)

\* error.response.statusText
StatusText(status) ==
    CASE status = 400 -> "Bad Request"
      [] status = 502 -> "Bad Gateway"
      [] status = 504 -> "Gateway Timeout"
      [] OTHER -> ""

\* the rejection handler of the response interceptor: the APIError it throws
interceptError(e) ==
    IF e.kind = "response"
      THEN CASE e.status = 401 ->
                  APIError("Unauthorized: Invalid API key or incorrect authentication method",
                           e.status, "INVALID_API_KEY", 0)
             [] e.status = 403 ->
                  APIError("Forbidden: API key lacks required permissions",
                           e.status, "INSUFFICIENT_PERMISSIONS", 0)
             [] e.status = 429 ->
                  APIError("Rate limit exceeded: Too many requests",
                           e.status, "RATE_LIMIT", e.retryAfter)
             [] e.status = 404 ->
                  APIError("Resource not found: /a - Check endpoint URL and competition ID",
                           e.status, "NOT_FOUND", 0)
             [] e.status = 500 ->
                  APIError("Server error: Sportradar API is experiencing issues",
                           e.status, "SERVER_ERROR", 0)
             [] e.status = 503 ->
                  APIError("Service unavailable: API temporarily down",
                           e.status, "SERVICE_UNAVAILABLE", e.retryAfter)
             [] OTHER ->
                  APIError("API Error: " \o StatusText(e.status), e.status, e.dataCode, 0)
    ELSE IF e.kind = "request"
      THEN IF e.code = "ECONNABORTED"
             THEN APIError("Request timeout: API took too long to respond", 0, "TIMEOUT", 0)
           ELSE IF e.code = "ENOTFOUND"
             THEN APIError("Network error: Unable to reach API server", 0, "DNS_ERROR", 0)
           ELSE APIError("Network error: Unable to connect to API", 0, "NETWORK_ERROR", 0)
    ELSE APIError("API Error: ", 0, "UNKNOWN", 0)

\* message.toLowerCase().includes("rate limit") and message.includes("Rate limit"):
\* the one message of the interceptor that has the words (none has "429")
IncludesRateLimit(message) == message = "Rate limit exceeded: Too many requests"

\* the error as handleRequestError of the AdvancedRateLimiter classifies it:
\* error.status === 429 || message.toLowerCase().includes("rate limit")
AdvOutcomeOf(err) ==
    IF err.status = 429 \/ IncludesRateLimit(err.message)
      THEN IF err.retryAfter # 0 THEN "429_retry_after" ELSE "429"
      ELSE "error"

\* the error as processSingleRequest of the EnhancedRateLimiter classifies it:
\* an APIError has no response field, so the message decides and no
\* retry-after is seen
EnhOutcomeOf(err) == IF IncludesRateLimit(err.message) THEN "429" ELSE "error"

\* does handleRequestError start a retry timer for a request that has been
\* retried retryCount times
AdvRetries(err, retryCount) ==
    LET s == [AdvState EXCEPT !.loop.cur = [NewRequest EXCEPT !.retryCount = retryCount]]
    IN  Len(handleRequestError(s, AdvOutcomeOf(err), 0, now).timers) > Len(s.timers)

\* does processSingleRequest sleep for another attempt after this one failed
EnhRetries(err, attempt) ==
    LET s == [EnhState EXCEPT !.loop.attempt = attempt]
    IN  EnhSettled(s, EnhOutcomeOf(err), 0, now).loop.pc = "retry_sleep"

NewFailure(limiter) ==
    [limiter |-> limiter, transport |-> NoTransport, apiError |-> NoError,
     execs |-> 0, decision |-> "new"]

\* the limiter calls the request function, the transport fails and the
\* interceptor throws its APIError
FailureCall ==
    /\ failure.decision \in {"new", "retry"}
    /\ \E e \in TransportErrors :
          failure' = [failure EXCEPT !.transport = e,
                                     !.apiError = interceptError(e),
                                     !.execs = @ + 1,
                                     !.decision = "thrown"]
    /\ UNCHANGED otherThanFailure

\* AdvancedRateLimiter.handleRequestError(request, error)
FailureAdvHandle ==
    /\ failure.limiter = "advanced" /\ failure.decision = "thrown"
    /\ failure' = [failure EXCEPT !.decision =
                      IF AdvRetries(failure.apiError, failure.execs - 1)
                        THEN "retry" ELSE "reject"]
    /\ UNCHANGED otherThanFailure

\* EnhancedRateLimiter.processSingleRequest, the catch block
FailureEnhHandle ==
    /\ failure.limiter = "enhanced" /\ failure.decision = "thrown"
    /\ failure' = [failure EXCEPT !.decision =
                      IF EnhRetries(failure.apiError, failure.execs)
                        THEN "retry" ELSE "reject"]
    /\ UNCHANGED otherThanFailure

\* the rejected call is over; the limiter turns to another one
FailureNextItem ==
    /\ failure.decision = "reject"
    /\ failure' = NewFailure(failure.limiter)
    /\ UNCHANGED otherThanFailure

InitFailure == failure = NewFailure("advanced")

NextFailure == FailureCall \/ FailureAdvHandle \/ FailureEnhHandle \/ FailureNextItem

----------------------------------------------------------------------------
(* APIMonitor (src/unnamed/part_007).  averageResponseTime is an exact      *)
(* fraction; the time stamps and endpoints of the records are left out.   *)

maxHistorySize == 100

RecordStatuses == {"success", "error", "rate_limited"}
\* Date.now() - startTime of a recorded call
ResponseTimes == {100, 300}

RECURSIVE Gcd(_, _)
Gcd(a, b) == IF b = 0 THEN a ELSE Gcd(b, a % b)

\* the number num / den in lowest terms, den > 0
Fraction(num, den) ==
    LET g == Gcd(num, den) IN [num |-> num \div g, den |-> den \div g]

\* the metrics of the constructor and of resetMetrics
ZeroMetrics ==
    [totalRequests |-> 0, successfulRequests |-> 0, failedRequests |-> 0,
     rateLimitHits |-> 0, averageResponseTime |-> Fraction(0, 1),
     lastError |-> Null, requestHistory |-> << >>]

\* recordRequest: (averageResponseTime * (totalRequests - 1) + responseTime)
\* / totalRequests, totalRequests already incremented
updatedAverage(m, status, responseTime) ==
    Fraction(m.averageResponseTime.num * m.totalRequests
                 + responseTime * m.averageResponseTime.den,
             m.averageResponseTime.den * (m.totalRequests + 1))

\* recordRequest(endpoint, startTime, status, error) where every failure comes
\* with its error: the metrics afterwards
monitorRecordRequest_RateLimitedApart(m, status, responseTime) ==
    [m EXCEPT !.totalRequests = @ + 1,
              !.successfulRequests = IF status = "success" THEN @ + 1 ELSE @,
              !.failedRequests = IF status = "error" THEN @ + 1 ELSE @,
              !.rateLimitHits = IF status = "rate_limited" THEN @ + 1 ELSE @,
              !.averageResponseTime = updatedAverage(m, status, responseTime),
              !.lastError = IF status # "success" THEN status ELSE @,
              !.requestHistory =
                  SubSeq(<<[status |-> status, responseTime |-> responseTime]>> \o @,
                         1, Min(Len(@) + 1, maxHistorySize))]
monitorRecordRequest(m, status, responseTime) ==
    [m EXCEPT !.totalRequests = @ + 1,
              !.successfulRequests = IF status = "success" THEN @ + 1 ELSE @,
              !.failedRequests = IF status # "success" THEN @ + 1 ELSE @,
              !.rateLimitHits = IF status = "rate_limited" THEN @ + 1 ELSE @,
              !.averageResponseTime = updatedAverage(m, status, responseTime),
              !.lastError = IF status # "success" THEN status ELSE @,
              !.requestHistory =
                  SubSeq(<<[status |-> status, responseTime |-> responseTime]>> \o @,
                         1, Min(Len(@) + 1, maxHistorySize))]

\* loadMetrics(): { ...this.metrics, ...JSON.parse(saved) }
loadMetrics(m, saved) == IF saved = << >> THEN m ELSE saved[1]

\* recordRequest(...), which ends with saveMetrics()
MonitorRecordRequest ==
    /\ metrics.totalRequests < MaxRecords
    /\ \E status \in RecordStatuses, responseTime \in ResponseTimes :
          /\ metrics' = monitorRecordRequest(metrics, status, responseTime)
          /\ savedMetrics' = <<monitorRecordRequest(metrics, status, responseTime)>>
    /\ UNCHANGED otherThanMonitor

\* resetMetrics(), which ends with saveMetrics()
MonitorResetMetrics ==
    /\ metrics' = ZeroMetrics
    /\ savedMetrics' = <<ZeroMetrics>>
    /\ UNCHANGED otherThanMonitor

\* a page reload: a new APIMonitor whose constructor runs loadMetrics()
MonitorReload ==
    /\ metrics' = loadMetrics(ZeroMetrics, savedMetrics)
    /\ UNCHANGED <<savedMetrics, otherThanMonitor>>

InitMonitor == metrics = ZeroMetrics /\ savedMetrics = << >>

NextMonitor == MonitorRecordRequest \/ MonitorResetMetrics \/ MonitorReload

----------------------------------------------------------------------------
(* Specifications *)

TrialBucket == InitBucketWith(SPORTRADAR_RATE_LIMITS.trial)

InitSpecDedup ==
    /\ InitClock /\ InitDedup /\ TrialBucket /\ InitCache /\ InitAdv /\ InitEnh /\ InitClient
    /\ InitBackoff /\ InitFailure /\ InitMonitor
    /\ limiterKind = "advanced"
SpecDedup == InitSpecDedup /\ [][NextDedup]_vars

InitSpecBucket ==
    /\ InitClock /\ InitDedup /\ InitBucket /\ InitCache /\ InitAdv /\ InitEnh /\ InitClient
    /\ InitBackoff /\ InitFailure /\ InitMonitor
    /\ limiterKind = "advanced"
SpecBucket == InitSpecBucket /\ [][NextBucket]_vars

InitSpecCache ==
    /\ InitClock /\ InitDedup /\ TrialBucket /\ InitCache /\ InitAdv /\ InitEnh /\ InitClient
    /\ InitBackoff /\ InitFailure /\ InitMonitor
    /\ limiterKind = "advanced"
SpecCache == InitSpecCache /\ [][NextCache]_vars

InitSpecAdv ==
    /\ InitClock /\ InitDedup /\ TrialBucket /\ InitCache /\ InitAdv /\ InitEnh /\ InitClient
    /\ InitBackoff /\ InitFailure /\ InitMonitor
    /\ limiterKind = "advanced"
SpecAdv == InitSpecAdv /\ [][NextAdv]_vars

InitSpecEnh ==
    /\ InitClock /\ InitDedup /\ TrialBucket /\ InitCache /\ InitAdv /\ InitEnh /\ InitClient
    /\ InitBackoff /\ InitFailure /\ InitMonitor
    /\ limiterKind = "enhanced"
SpecEnh == InitSpecEnh /\ [][NextEnh]_vars

InitSpecClient ==
    /\ InitClock /\ InitDedup /\ TrialBucket /\ InitCache /\ InitAdv /\ InitEnh /\ InitClient
    /\ InitBackoff /\ InitFailure /\ InitMonitor
    /\ limiterKind = "advanced"
SpecClient == InitSpecClient /\ [][NextClient]_vars

\* the retry delays of one limiter
InitSpecBackoff ==
    /\ InitClock /\ InitDedup /\ TrialBucket /\ InitCache /\ InitAdv /\ InitEnh /\ InitClient
    /\ backoff \in {BackoffItem("advanced", 0), BackoffItem("enhanced", 0)}
    /\ InitFailure /\ InitMonitor
    /\ limiterKind = "advanced"
SpecBackoff == InitSpecBackoff /\ [][NextBackoff]_vars

\* a failing call under either limiter
InitSpecFailure ==
    /\ InitClock /\ InitDedup /\ TrialBucket /\ InitCache /\ InitAdv /\ InitEnh /\ InitClient
    /\ InitBackoff /\ InitMonitor
    /\ failure \in {NewFailure("advanced"), NewFailure("enhanced")}
    /\ limiterKind = "advanced"
SpecFailure == InitSpecFailure /\ [][NextFailure]_vars

InitSpecMonitor ==
    /\ InitClock /\ InitDedup /\ TrialBucket /\ InitCache /\ InitAdv /\ InitEnh /\ InitClient
    /\ InitBackoff /\ InitFailure /\ InitMonitor
    /\ limiterKind = "advanced"
SpecMonitor == InitSpecMonitor /\ [][NextMonitor]_vars

\* a client with either of the two limiters
InitSpecLimiter ==
    /\ InitClock /\ InitDedup /\ TrialBucket /\ InitCache /\ InitAdv /\ InitEnh /\ InitClient
    /\ InitBackoff /\ InitFailure /\ InitMonitor
    /\ limiterKind \in {"advanced", "enhanced"}
NextLimiter ==
    \/ limiterKind = "advanced" /\ NextAdv
    \/ limiterKind = "enhanced" /\ NextEnh
SpecLimiter == InitSpecLimiter /\ [][NextLimiter]_vars

\* Either limiter left to drain: requests arrive up to MaxArrivalTime, a
\* timer fires when it is due, a call that was executed settles, and the
\* clock moves to the time of the next timer.
SetMin(S) == CHOOSE x \in S : \A y \in S : x <= y

AdvPendingTimes ==
    (IF advLoop.pc = "sleeping" THEN {advLoop.wake} ELSE {})
        \cup {advTimers[i].fireAt : i \in 1..Len(advTimers)}
EnhPendingTimes ==
    IF enhLoop.pc \in {"waiting", "final_wait", "retry_sleep", "gap"}
      THEN {enhLoop.wake} ELSE {}

AdvDrainArrive == now <= MaxArrivalTime /\ AdvMakeRequest
EnhDrainArrive == now <= MaxArrivalTime /\ scheduled < MaxDrainScheduled /\ EnhSchedule

AdvDrainTick ==
    /\ AdvPendingTimes # {}
    /\ \A t \in AdvPendingTimes : t > now
    /\ now' = SetMin(AdvPendingTimes)
    /\ UNCHANGED <<advVars, tokens, lastRefill, otherThanAdv>>

EnhDrainTick ==
    /\ enhKicks = 0
    /\ EnhPendingTimes # {}
    /\ \A t \in EnhPendingTimes : t > now
    /\ now' = SetMin(EnhPendingTimes)
    /\ UNCHANGED <<enhVars, otherThanEnh>>

\* the steps the runtime takes by itself: timers, settling calls, the clock
AdvDrainProgress ==
    AdvTokenTimer \/ AdvResponse \/ AdvRetryTimer \/ AdvDrainTick
EnhDrainProgress ==
    \/ EnhKick \/ EnhWaitWake \/ EnhFinalWake \/ EnhResponse
    \/ EnhRetryWake \/ EnhGapWake \/ EnhDrainTick

InitSpecDrain ==
    /\ InitClock /\ InitDedup /\ TrialBucket /\ InitCache /\ InitAdv /\ InitEnh /\ InitClient
    /\ InitBackoff /\ InitFailure /\ InitMonitor
    /\ limiterKind \in {"advanced", "enhanced"}
NextDrain ==
    \/ limiterKind = "advanced" /\ AdvDrainArrive
    \/ limiterKind = "advanced" /\ AdvBreakerStatus
    \/ limiterKind = "advanced" /\ AdvRefillTimer
    \/ limiterKind = "advanced" /\ AdvDrainProgress
    \/ limiterKind = "enhanced" /\ EnhDrainArrive
    \/ limiterKind = "enhanced" /\ EnhGetStatus
    \/ limiterKind = "enhanced" /\ EnhDrainProgress
SpecDrain ==
    /\ InitSpecDrain /\ [][NextDrain]_vars
    /\ WF_vars(limiterKind = "advanced" /\ AdvDrainProgress)
    /\ WF_vars(limiterKind = "enhanced" /\ EnhDrainProgress)

----------------------------------------------------------------------------
(* Claims *)

C8_TokensWithinCapacity == tokens >= 0 /\ tokens <= bucketCfg.capacity

\* the production bucket (5 of 10 tokens at the start) after a refill that
\* credited 45 s or more of elapsed time and was cut off at the capacity
C8_Witness ==
    /\ bucketLast.op \in {"refill", "canConsume"}
    /\ tokens = bucketCfg.capacity
    /\ lastRefill = now /\ now >= 45000
    /\ bucketCfg.capacity > bucketCfg.initialTokens

\* C9: in every reachable state a consume(1) made getTimeUntilNextToken()
\* milliseconds later, or later still, succeeds when nobody else consumed in
\* between; getTimeUntilNextToken() is 0 only where consume(1) succeeds at
\* once, so waitForToken never sleeps for 0 ms.
C9_WaitThenConsumeSucceeds ==
    LET w == getTimeUntilNextToken(bucketCfg, tokens)
    IN  /\ \A late \in {0, 1, 200, 90000} :
               consume(bucketCfg, tokens, lastRefill, now + w + late, 1)[1]
        /\ (w = 0 => consume(bucketCfg, tokens, lastRefill, now, 1)[1])
        /\ (bucketLast.op = "waitForToken" /\ bucketLast.afterWait /\ ~bucketLast.disturbed
               => bucketLast.ok)
        /\ (waiter.pc = "sleeping" => waiter.wait > 0)

\* waitForToken found the bucket empty, slept, and its next consume(1) succeeded
C9_Witness ==
    /\ bucketLast.op = "waitForToken"
    /\ bucketLast.afterWait /\ ~bucketLast.disturbed /\ bucketLast.ok

ApiEntries(e) == {j \in 1..Len(cache) : cache[j].key = apiCacheKey(e)}

C3_CacheHitLeavesLimiter ==
    [][\A e \in Endpoints :
          (/\ Len(callers') = Len(callers) + 1
           /\ callers'[Len(callers')].key = deduplicationKey(e)
           /\ ApiEntries(e) # {}
           /\ \A j \in ApiEntries(e) : ~IsExpired(cache[j], now)) =>
              /\ UNCHANGED <<advVars, tokens, lastRefill>>
              /\ invs'[callers'[Len(callers')].inv].kind = "hit"
              /\ \E j \in ApiEntries(e) :
                    invs'[callers'[Len(callers')].inv].value = cache[j].data]_vars

\* a request was answered from the cache while the limiter held another request
C3_Witness ==
    \E c \in 1..Len(callers) :
        /\ invs[callers[c].inv].kind = "hit"
        /\ invs[callers[c].inv].state = "resolved"
        /\ invs[callers[c].inv].value \in Data
        /\ advLoop.pc = "inflight"

\* C4: whenever the EnhancedRateLimiter takes a request off its queue, every
\* request still waiting has a lower priority, or the same priority and was
\* scheduled later
C4_DispatchByPriorityThenFifo ==
    [][(enhLoop'.cur.id # enhLoop.cur.id /\ enhLoop'.cur.id # 0) =>
          \A i \in 1..Len(requestQueue') :
              \/ requestQueue'[i].priority < enhLoop'.cur.priority
              \/ /\ requestQueue'[i].priority = enhLoop'.cur.priority
                 /\ requestQueue'[i].id > enhLoop'.cur.id]_vars

\* priorities 1, 0, 2 were scheduled in that order; the request of priority 2
\* is dispatched first, the one of priority 1 waits before the one of priority 0
C4_Witness ==
    /\ enhLoop.cur = [id |-> 3, priority |-> 2]
    /\ requestQueue = <<[id |-> 1, priority |-> 1], [id |-> 2, priority |-> 0]>>

\* the breaker of a limiter between its opening and the end of the cooldown
AdvBreakerIsOpen ==
    advBreaker.opened /\ now - advBreaker.openedAt < circuitBreakerResetTime
EnhBreakerIsOpen ==
    enhBreaker.opened /\ now - enhBreaker.openedAt < circuitBreakerTimeout

\* C5: with threshold consecutive recorded failures and no success since, the
\* breaker reports open (until the cooldown has passed); with fewer it
\* reports closed
C5_OpensAtThreshold ==
    /\ (advBreaker.consec >= circuitBreakerThreshold /\ AdvBreakerIsOpen) =>
           isCircuitBreakerOpen(circuitBreakerFailures, lastCircuitBreakerTrip, now)[1]
    /\ advBreaker.consec < circuitBreakerThreshold =>
           ~isCircuitBreakerOpen(circuitBreakerFailures, lastCircuitBreakerTrip, now)[1]
    /\ (advBreaker.consec = circuitBreakerThreshold /\ advBreaker.last = "failure") =>
           advBreaker.opened
    /\ (enhBreaker.consec >= maxConsecutiveFailures /\ EnhBreakerIsOpen) =>
           /\ ~canMakeRequest(EnhState, now)[1]
           /\ scheduleRejects(EnhState, now)
    /\ enhBreaker.consec < maxConsecutiveFailures =>
           /\ ~circuitBreakerOpen
           /\ ~scheduleRejects(EnhState, now)
    /\ (enhBreaker.consec = maxConsecutiveFailures /\ enhBreaker.last = "failure") =>
           enhBreaker.opened

\* the fifth consecutive failure of the AdvancedRateLimiter has just been recorded
C5_Witness ==
    /\ advBreaker.consec = circuitBreakerThreshold
    /\ advBreaker.last = "failure"
    /\ now = advBreaker.openedAt
    /\ isCircuitBreakerOpen(circuitBreakerFailures, lastCircuitBreakerTrip, now)[1]

\* C6: once the cooldown has elapsed since the breaker opened, an admission
\* query reports it closed and leaves the failure counter at 0
C6_ClosedAfterCooldown ==
    /\ (advBreaker.opened /\ now - advBreaker.openedAt >= circuitBreakerResetTime) =>
           LET b == isCircuitBreakerOpen(circuitBreakerFailures, lastCircuitBreakerTrip, now)
           IN  ~b[1] /\ b[2] = 0
    /\ (enhBreaker.opened /\ now - enhBreaker.openedAt >= circuitBreakerTimeout) =>
           LET c == canMakeRequest(EnhState, now)
           IN  ~c[2].open /\ c[2].failures = 0

\* C7: a scheduling attempt made while the breaker is open is rejected and
\* changes neither the queue, nor the drain loop and its timers, nor the bucket
C7_RejectedWhileOpen ==
    [][/\ (AdvBreakerIsOpen /\ AdvMakeRequest) =>
            /\ advBreaker'.last = "rejected"
            /\ UNCHANGED <<advQueue, isProcessing, advLoop, advTimers, tokens, lastRefill>>
       /\ (EnhBreakerIsOpen /\ EnhSchedule) =>
            /\ enhBreaker'.last = "rejected"
            /\ UNCHANGED <<requestQueue, enhIsProcessing, enhLoop, enhKicks,
                           requests, scheduled>>]_vars

\* scheduleRequest has rejected a request while the breaker was open
C7_Witness ==
    /\ enhBreaker.last = "rejected"
    /\ EnhBreakerIsOpen
    /\ enhLoop.pc # "idle"


\* C11: after any sequence of set, get, has, delete, clear and sweep calls,
\* several sets in one clock tick included, the cache holds at most maxSize
\* entries.
C11_SizeWithinMaxSize == Len(cache) <= CacheMaxSize

\* the entries of c with the smallest lastAccessed
LeastRecentlyAccessed(c) ==
    {i \in 1..Len(c) : \A j \in 1..Len(c) : c[i].lastAccessed <= c[j].lastAccessed}

\* C12: a set on a full cache evicts exactly one entry, one with the smallest
\* lastAccessed (an evicted entry of the key being set is stored anew); no
\* entry accessed more recently than another stored entry is evicted.
C12_EvictsLeastRecentlyAccessed ==
    [][(cacheLast'.op = "set" /\ cacheOps' # cacheOps /\ Len(cache) >= CacheMaxSize) =>
          \E i \in LeastRecentlyAccessed(cache) :
              CacheKeySet(cache') =
                  (CacheKeySet(cache) \ {cache[i].key}) \cup {cacheLast'.key}]_vars


\* a step in which the drain loop of the EnhancedRateLimiter calls
\* request.execute()
EnhDispatches == enhLoop.pc # "inflight" /\ enhLoop'.pc = "inflight"

\* C13: two calls executed one after the other by the drain loop of the
\* EnhancedRateLimiter, retry attempts included, are at least
\* minimumRequestInterval apart.
C13_MinimumIntervalBetweenDispatches ==
    [][(lastDispatch # NoNumber /\ EnhDispatches) =>
          now - lastDispatch >= minimumRequestInterval]_vars


\* C14: the delay computed for a rate-limit failure of an item is, without
\* its jitter, at least the delay computed for the item's previous failure,
\* and it is at most the maximum of its error class.
C14_DelaysGrowUpToCap ==
    (backoff.plain # NoNumber) =>
        /\ backoff.plain <= backoff.cap
        /\ (backoff.prev # NoNumber => backoff.plain >= backoff.prev)


\* the kinds the scheduler is to retry, and those it is not to
RetryableKinds == {"RATE_LIMIT", "SERVICE_UNAVAILABLE", "NETWORK_ERROR", "TIMEOUT"}
NonRetryableKinds ==
    {"MISSING_API_KEY", "INVALID_API_KEY_FORMAT", "INVALID_API_KEY",
     "INSUFFICIENT_PERMISSIONS", "NOT_FOUND"}

\* C15: a call whose first execution failed is retried exactly when the kind
\* of its error is retryable; with a kind that is not retryable it is
\* rejected after that one execution.
C15_RetriesExactlyRetryableKinds ==
    (failure.execs = 1 /\ failure.decision \in {"retry", "reject"}) =>
        /\ failure.decision = "retry" <=> failure.apiError.code \in RetryableKinds
        /\ failure.apiError.code \in NonRetryableKinds => failure.decision = "reject"

\* the kind the taxonomy gives to an outcome of the transport
TaxonomyKinds(e) ==
    IF e.kind = "response"
      THEN CASE e.status = 401 -> {"INVALID_API_KEY"}
             [] e.status = 403 -> {"INSUFFICIENT_PERMISSIONS"}
             [] e.status = 429 -> {"RATE_LIMIT"}
             [] e.status = 404 -> {"NOT_FOUND"}
             [] e.status = 503 -> {"SERVICE_UNAVAILABLE"}
             [] e.status >= 500 /\ e.status <= 599 /\ e.status # 503 -> {"SERVER_ERROR"}
             [] OTHER -> {"UNKNOWN"}
    ELSE IF e.kind = "request"
      THEN IF e.code = "ECONNABORTED" THEN {"TIMEOUT"} ELSE {"DNS_ERROR", "NETWORK_ERROR"}
    ELSE {"UNKNOWN"}

\* C16: the APIError the response interceptor throws has the kind of the
\* taxonomy for its status or transport outcome, and a 429 or 503 carries the
\* Retry-After of the response.
C16_InterceptorYieldsTaxonomyKind ==
    (failure.transport # NoTransport) =>
        /\ failure.apiError.code \in TaxonomyKinds(failure.transport)
        /\ (failure.transport.status \in {429, 503} =>
               failure.apiError.retryAfter = failure.transport.retryAfter)


\* C17: after any sequence of recordRequest and resetMetrics calls
\* totalRequests = successfulRequests + failedRequests and
\* rateLimitHits <= failedRequests.
C17_TotalsAddUp ==
    /\ metrics.totalRequests = metrics.successfulRequests + metrics.failedRequests
    /\ metrics.rateLimitHits <= metrics.failedRequests

\* a success, an error and a rate-limited call were recorded, the first of
\* them after a reset or on a new monitor
C17_Witness ==
    /\ [i \in 1..Len(metrics.requestHistory) |-> metrics.requestHistory[i].status]
           = <<"rate_limited", "error", "success">>
    /\ metrics.totalRequests = 3 /\ metrics.failedRequests = 2
    /\ metrics.rateLimitHits = 1
    /\ savedMetrics = <<metrics>>


\* C18: every record of pendingRequests belongs to an invocation of its key
\* that has not settled, and no caller of deduplicate is handed an invocation
\* that had settled, with success or with failure, before the call: it
\* shares an unsettled one or requestFn is invoked for it.
C18_RecordsOfUnsettledCallsOnly ==
    /\ \A k \in DOMAIN pendingRequests :
          /\ invs[pendingRequests[k].inv].key = k
          /\ invs[pendingRequests[k].inv].state = "pending"
    /\ \A c \in 1..Len(callers) :
          \/ callers[c].inv \in callers[c].inflight
          \/ /\ invs[callers[c].inv].started = callers[c].at
             /\ \A d \in 1..(c - 1) : callers[d].inv # callers[c].inv

\* a call for a key was rejected, and the next deduplicate for the key
\* invoked requestFn again and registered the new call
C18_Witness ==
    \E c \in 1..Len(callers) :
        /\ \E j \in 1..(callers[c].inv - 1) :
              invs[j].key = callers[c].key /\ invs[j].state = "rejected"
        /\ callers[c].inflight = {}
        /\ callers[c].key \in DOMAIN pendingRequests
        /\ pendingRequests[callers[c].key].inv = callers[c].inv


\* C19: each limiter has at most one processQueue call between its guard and
\* its finally block, and isProcessing is true exactly while there is one.
C19_OneDrainLoop ==
    /\ advActive <= 1 /\ enhActive <= 1
    /\ isProcessing <=> advActive = 1
    /\ enhIsProcessing <=> enhActive = 1
    /\ advLoop.pc # "idle" <=> advActive = 1
    /\ enhLoop.pc # "idle" <=> enhActive = 1

\* the retry timer of a request fired while the drain loop was waiting for
\* the response of another request: the retried request is back in the queue
\* and processQueue returned at its guard
C19_Witness ==
    /\ advLoop.pc = "inflight" /\ advLoop.cur.retryCount = 0
    /\ Len(advQueue) > 0 /\ Head(advQueue).retryCount > 0
    /\ isProcessing /\ advActive = 1


\* a step in which the drain loop of the AdvancedRateLimiter calls
\* request.requestFn()
AdvDispatches ==
    /\ advLoop'.pc = "inflight"
    /\ advLoop.pc # "inflight" \/ Len(advQueue') < Len(advQueue)

\* a step in which the drain loop of the EnhancedRateLimiter, having tested
\* canMakeRequest(), goes to sleep with the request it holds or with the queue
EnhLoopSleeps ==
    /\ enhLoop' # enhLoop
    /\ enhLoop'.pc \in {"waiting", "final_wait"}

\* C20: while the circuit breaker is open the drain loop executes no call,
\* and a drain loop that finds the breaker open rejects what is queued
\* instead of waiting.
C20_OpenBreakerFailsQueue ==
    [][/\ ~(AdvBreakerIsOpen /\ AdvDispatches)
       /\ ~(EnhBreakerIsOpen /\ EnhDispatches)
       /\ ~(EnhBreakerIsOpen /\ EnhLoopSleeps)]_vars


\* C21: once the breaker has opened it reports open at every time before the
\* end of the cooldown, whatever successes and failures are recorded in
\* between: no step taken before the cooldown has passed closes it.
C21_OpenUntilCooldown ==
    [][/\ (AdvBreakerIsOpen /\ now' - advBreaker.openedAt < circuitBreakerResetTime) =>
            isCircuitBreakerOpen(circuitBreakerFailures', lastCircuitBreakerTrip', now')[1]
       /\ (EnhBreakerIsOpen /\ now' - enhBreaker.openedAt < circuitBreakerTimeout) =>
            /\ circuitBreakerOpen'
            /\ ~canMakeRequest(EnhState, now)[1]'
            /\ scheduleRejects(EnhState, now)']_vars


\* the step is the settling of the executing call with a rate-limit outcome
RateLimitOutcomes == {"429", "429_retry_after"}
AdvFailsRateLimited ==
    /\ advLoop.pc = "inflight"
    /\ \E outcome \in RateLimitOutcomes, jitter \in Jitter :
          AdvCommit(AdvLoopHead(handleRequestError(AdvState, outcome, jitter, now), now))
EnhFailsRateLimited ==
    /\ enhLoop.pc = "inflight"
    /\ \E outcome \in RateLimitOutcomes, h \in Headers \cup {NoHeaders} :
          LET s1 == IF h = NoHeaders THEN EnhState
                    ELSE updateFromHeaders(EnhState, h, now)
          IN  EnhCommit(EnhSettled(canMakeRequest(s1, now)[2], outcome, 0, now))

\* C22: every call that fails with a rate-limit error adds one to the
\* breaker's consecutive-failure counter, whether or not the request is
\* retried, and once the counter has reached the threshold the next request
\* scheduled at that moment is rejected.
C22_RateLimitFailureCounts ==
    [][/\ AdvFailsRateLimited =>
            /\ circuitBreakerFailures' = circuitBreakerFailures + 1
            /\ circuitBreakerFailures' >= circuitBreakerThreshold =>
                   isCircuitBreakerOpen(circuitBreakerFailures', lastCircuitBreakerTrip', now')[1]
       /\ EnhFailsRateLimited =>
            /\ consecutiveFailures' = consecutiveFailures + 1
            /\ consecutiveFailures' >= maxConsecutiveFailures =>
                   scheduleRejects(EnhState, now)']_vars


\* the requests the AdvancedRateLimiter holds: queued, waiting in a retry
\* timer, or taken by the drain loop
AdvHeld ==
    {advQueue[i] : i \in 1..Len(advQueue)}
        \cup {advTimers[i].req : i \in 1..Len(advTimers)}
        \cup (IF advLoop.pc = "idle" THEN {} ELSE {advLoop.cur})

\* C23: a request whose call fails with a rate-limit error while
\* retryCount < maxRetries waits for the backoff delay with retryCount + 1 and
\* is then put at the head of the queue; at retryCount = maxRetries it is
\* rejected; no request's call is executed more than maxRetries + 1 times.
C23_RetryProtocol ==
    [][/\ (AdvFailsRateLimited /\ advLoop.cur.retryCount < maxRetries) =>
            /\ Len(advTimers') = Len(advTimers) + 1
            /\ SubSeq(advTimers', 1, Len(advTimers)) = advTimers
            /\ LET timer == advTimers'[Len(advTimers')]
               IN  /\ timer.req = [advLoop.cur EXCEPT !.retryCount = @ + 1]
                   /\ \E outcome \in RateLimitOutcomes, jitter \in Jitter :
                         timer.fireAt = now + calculateBackoffDelay(advLoop.cur.retryCount,
                                            RetryAfterOf(outcome), TRUE, jitter)
            /\ circuitBreakerFailures' = circuitBreakerFailures
            /\ AdvLive' = AdvLive
       /\ (AdvFailsRateLimited /\ advLoop.cur.retryCount = maxRetries) =>
            /\ advTimers' = advTimers
            /\ circuitBreakerFailures' = circuitBreakerFailures + 1
            /\ AdvLive' = AdvLive - 1
       /\ AdvRetryTimer =>
            \E i \in 1..Len(advTimers) :
               /\ now >= advTimers[i].fireAt
               /\ advTimers' = SeqRemove(advTimers, i)
               /\ IF isProcessing
                    THEN advQueue' = <<advTimers[i].req>> \o advQueue
                    ELSE /\ advQueue' = advQueue
                         /\ advLoop'.pc # "idle"
                         /\ advLoop'.cur.retryCount = advTimers[i].req.retryCount
                         /\ advLoop'.cur.execs \in {advTimers[i].req.execs,
                                                      advTimers[i].req.execs + 1}
       /\ \A r \in AdvHeld' :
            /\ r.retryCount <= maxRetries
            /\ r.execs <= maxRetries + 1]_vars

\* a request that failed with a rate-limit error is executed a second time
C23_Witness ==
    /\ advLoop.pc = "inflight"
    /\ advLoop.cur.retryCount = maxRetries
    /\ advLoop.cur.execs = maxRetries + 1
    /\ Len(advQueue) > 0


\* the tokens of the bucket plus the tokens due for the time since lastRefill,
\* in units of 1 / (1000 * rateDen) token
TokensWithElapsed(tk, last, t) ==
    tk * 1000 * bucketCfg.rateDen + (t - last) * bucketCfg.rateNum

\* C24: refill is continuous: below capacity a refill credits exactly the
\* elapsed time times refillRate, fractions carried, so that no elapsed time
\* is discarded however often refill is invoked.
C24_RefillIsContinuous ==
    [][((BucketRefillTimer \/ BucketQuery) /\ tokens' < bucketCfg.capacity) =>
           TokensWithElapsed(tokens', lastRefill', now')
               = TokensWithElapsed(tokens, lastRefill, now)]_vars


\* the entries of a map or of the serialized store, as a set
EntrySet(c) == {c[i] : i \in 1..Len(c)}

\* the in-memory entries that are not expired at time t
Unexpired(c, t) == {e \in EntrySet(c) : t <= e.expiresAt}

\* C25: after every operation that changes the cache contents the store
\* under 'sportradar_cache' holds exactly the unexpired in-memory entries; a
\* fresh instance holds exactly the stored entries unexpired at load time.
C25_StoreTracksMemory ==
    [][/\ (cache' # cache /\ cacheLast'.op # "load") =>
              EntrySet(storage') = Unexpired(cache', now')
       /\ (cacheOps' # cacheOps /\ cacheLast'.op = "load") =>
              EntrySet(cache') = Unexpired(storage, now')]_vars


\* the response times of the calls recorded as successful, newest first
SuccessTimes(m) ==
    LET ok == SelectSeq(m.requestHistory, LAMBDA r : r.status = "success")
    IN  [i \in 1..Len(ok) |-> ok[i].responseTime]

RECURSIVE SeqSum(_)
SeqSum(q) == IF q = << >> THEN 0 ELSE Head(q) + SeqSum(Tail(q))

\* C26: averageResponseTime is the arithmetic mean of the durations of the
\* calls recorded as success (0 while there is none); calls recorded as error
\* or rate_limited do not influence it.
C26_AverageOverSuccesses ==
    LET times == SuccessTimes(metrics)
        avg == metrics.averageResponseTime
    IN  IF times = << >> THEN avg.num = 0
        ELSE avg.num * Len(times) = SeqSum(times) * avg.den


\* C27: every execution of a request's call, first attempt or retry, follows
\* one successful tokenBucket.consume(1) made for it: the step that executes
\* a call takes exactly one token from the refilled bucket, no other step
\* takes a token or executes a call, and a request has been executed once for
\* each of its retries plus once if it is executing; so the calls executed
\* never exceed the initial tokens plus the tokens refilled.
C27_TokenPerExecution ==
    [][/\ AdvDispatches =>
            LET r == refillTokens(bucketCfg, tokens, lastRefill, now)
            IN  /\ r[1] >= 1
                /\ tokens' = r[1] - 1
                /\ lastRefill' = r[2]
       /\ ~AdvDispatches =>
            /\ tokens' >= tokens
            /\ advLoop'.pc = "inflight" => advLoop' = advLoop
       /\ tokens' >= 0
       /\ \A i \in 1..Len(advQueue') : advQueue'[i].execs = advQueue'[i].retryCount
       /\ \A i \in 1..Len(advTimers') : advTimers'[i].req.execs = advTimers'[i].req.retryCount
       /\ advLoop'.pc = "sleeping" => advLoop'.cur.execs = advLoop'.cur.retryCount
       /\ advLoop'.pc = "inflight" => advLoop'.cur.execs = advLoop'.cur.retryCount + 1]_vars

\* a retry is executing on a token that was refilled for it, while the next
\* request waits for its own
C27_Witness ==
    /\ advLoop.pc = "inflight" /\ advLoop.cur.execs = 2
    /\ tokens = 0 /\ lastRefill = now /\ now > 0
    /\ Len(advQueue) > 0 /\ Head(advQueue).execs = 0


\* the ids of the requests the EnhancedRateLimiter holds: queued, or shifted
\* by processSingleRequest and not settled yet
EnhQueuedIds == {requestQueue[i].id : i \in 1..Len(requestQueue)}
EnhHeldIds ==
    EnhQueuedIds \cup (IF enhLoop.cur = NoEnhRequest THEN {} ELSE {enhLoop.cur.id})

\* C28: a request that was accepted is settled at most once, by resolve or by
\* reject.  AdvancedRateLimiter: the number of requests held (queue, retry
\* timers, drain loop) grows only by an accepted makeRequest and shrinks only
\* when the executing request is resolved or rejected; a request that is
\* retried moves to one timer without being rejected, and a firing timer moves
\* it to the queue or the loop.  EnhancedRateLimiter: every id is held at most
\* once, only scheduleRequest adds an id, which is new, and the only id a step
\* drops is that of the executing request.
C28_SettledAtMostOnce ==
    [][/\ limiterKind = "advanced" =>
            LET live == AdvLive
                after == AdvLive'
            IN  /\ after - live \in {-1, 0, 1}
                /\ after = live + 1 =>
                     /\ advTimers' = advTimers
                     /\ IF advLoop.pc = "idle" THEN advLoop'.cur.retryCount = 0
                        ELSE advQueue' = Append(advQueue, NewRequest)
                /\ after = live - 1 =>
                     /\ advLoop.pc = "inflight"
                     /\ advTimers' = advTimers
                     /\ \/ circuitBreakerFailures' = 0 /\ advBreaker'.last = "success"
                        \/ circuitBreakerFailures' = circuitBreakerFailures + 1
                             /\ advBreaker'.last = "failure"
                /\ Len(advTimers') > Len(advTimers) =>
                     /\ advLoop.pc = "inflight"
                     /\ after = live
                     /\ circuitBreakerFailures' = circuitBreakerFailures
                     /\ advTimers'[Len(advTimers')].req.inv = advLoop.cur.inv
                /\ Len(advTimers') < Len(advTimers) => after = live
       /\ (limiterKind = "enhanced"
             /\ (requestQueue' # requestQueue \/ enhLoop'.cur # enhLoop.cur)) =>
            LET held == EnhHeldIds
                after == EnhHeldIds'
            IN  /\ Cardinality(EnhQueuedIds') = Len(requestQueue')
                /\ enhLoop'.cur # NoEnhRequest => enhLoop'.cur.id \notin EnhQueuedIds'
                /\ after \subseteq held \cup {scheduled + 1}
                /\ scheduled + 1 \in after => scheduled' = scheduled + 1
                /\ held \subseteq after \cup {enhLoop.cur.id}
                /\ (held # after /\ after \subseteq held) => enhLoop.pc = "inflight"]_vars

\* one request waits in its retry timer while the next one is executing, after
\* an earlier request has been rejected
C28_Witness ==
    /\ Len(advTimers) = 1 /\ advTimers[1].req.retryCount = 1
    /\ advLoop.pc = "inflight" /\ advLoop.cur.retryCount = 0
    /\ circuitBreakerFailures > 0


OtherEntries(c, key) == {e \in EntrySet(c) : e.key # key}

\* C30: a set on a key that is already stored only replaces that key's
\* entry: the entries under the other keys stay as they were and the number
\* of entries does not change, also when the cache holds maxSize entries.
C30_SetReplacesInPlace ==
    [][(cacheOps' # cacheOps /\ cacheLast'.op = "set"
           /\ CacheHasKey(cache, cacheLast'.key)) =>
          /\ OtherEntries(cache', cacheLast'.key) = OtherEntries(cache, cacheLast'.key)
          /\ Len(cache') = Len(cache)]_vars

====
